---- MODULE Spec2Model ----
(***************************************************************************)
(* A model of the reconciliation passes of the Criterion Closet Picks data *)
(* pipeline (src/scripts).  The persistent store is four whole documents:  *)
(* the catalog, the guests, the raw picks and the reconciled picks.  Every *)
(* pass is one action: it loads the documents, rewrites them in memory and *)
(* saves them.                                                             *)
(***************************************************************************)
EXTENDS Integers, Sequences, FiniteSets, TLC

VARIABLES
    catalog,    \* criterion_catalog.json
    guests,     \* guests.json
    picks_raw,  \* picks_raw.json
    picks,      \* picks.json
    before,     \* the documents as the most recent pass loaded them
    last,       \* what the most recent pass was and what it reported
    runs,       \* number of passes run so far
    checkpoint, \* .extraction_progress.json
    lock,       \* the holder of _checkpoint_lock, if any
    threads     \* the threads of a parallel extraction run

vars == <<catalog, guests, picks_raw, picks, before, last, runs, checkpoint, lock, threads>>

\* no parallel extraction run is under way
NoThreads == [main |-> "idle"]

(***************************************************************************)
(* JSON values.  None is JSON null, which dict.get() also returns for a    *)
(* missing key; NoKey marks a key that a record does not carry at all,     *)
(* where the serialized document shows the difference.                     *)
(***************************************************************************)
None == "null"
NoKey == "<no key>"

\* Python truthiness of an optional string
Truthy(v) == v \notin {None, NoKey, ""}

Range(s) == {s[i] : i \in DOMAIN s}

\* dict.get(key) on a table kept as a sequence of <<key, value>> in source order
HasKey(table, key) == \E i \in DOMAIN table : table[i][1] = key
Get(table, key) ==
    IF HasKey(table, key)
    THEN table[CHOOSE i \in DOMAIN table : table[i][1] = key][2]
    ELSE None

\* s without its k-th element (list.pop(k))
Pop(s, k) == [i \in 1..(Len(s) - 1) |-> IF i < k THEN s[i] ELSE s[i + 1]]

\* the elements of s that satisfy Keep, in order
RECURSIVE SelectIdx(_, _, _)
SelectIdx(s, keep, i) ==
    IF i > Len(s) THEN <<>>
    ELSE (IF i \in keep THEN <<s[i]>> ELSE <<>>) \o SelectIdx(s, keep, i + 1)

(***************************************************************************)
(* normalize_guests.py: configuration                                      *)
(***************************************************************************)
REPEAT_VISIT_MERGES == <<
    <<"guillermo-del-toro", "guillermo-del-toros-second">>,
    <<"yorgos-lanthimos", "yorgos-lanthimos-second">>,
    <<"ari-aster", "ari-asters-second">>,
    <<"edgar-wright", "edgar-wrights-second">>,
    <<"benny-safdie", "benny-safdies-second">>,
    <<"michael-cera", "michael-ceras-second">>,
    <<"griffin-dunne", "griffin-dunnes-second">>,
    <<"isabelle-huppert", "isabelle-hupperts-second">>,
    <<"barry-jenkins", "barry-jenkins-second">>,
    <<"bill-hader", "bill-haders-second">>,
    <<"wim-wenders", "wim-wenders-second">> >>

NAME_VARIANT_MERGES == <<
    <<"mary-steenburgen-and-ted-danson", "ted-danson-mary-steenburgen">>,
    <<"john-david-washington-malcolm-washington", "john-david-washington-and-malcolm-washington">>,
    <<"roger-and-james-deakins", "roger-james-deakins">>,
    <<"katya-zamolodchikova", "katya-zamolodchikovas-closet-picks">> >>

SOLO_INTO_PAIR_MERGES == <<
    <<"seth-rogen-evan-goldberg", "seth-rogen">>,
    <<"juliette-binoche-ralph-fiennes", "juliette-binoche">>,
    <<"laura-albert-jeff-feuerzeig", "laura-albert">>,
    <<"marianne-jean-baptiste-mike-leigh", "mike-leigh">>,
    <<"lily-gladstone-erica-tremblay", "lily-gladstone">> >>

NEW_PAIR == [
    slug |-> "john-early-jacqueline-novak",
    name |-> "John Early and Jacqueline Novak",
    from_slugs |-> <<"john-early", "jacqueline-novak">>,
    shared_video |-> "k9c6EUVVWjU" ]

WRONG_VIDEO_FIXES == <<
    <<"matt-johnson", "U2plMSuOgrI">>,
    <<"michael-mohan", "Ewx-oog2kmQ">>,
    <<"lee-daniels", "dqNtp1bAI8o">> >>

SLUG_FIXES == <<
    <<"seth-myers", "seth-meyers">>,
    <<"waych-shopvince-staples", "vince-staples">>,
    <<"watch-shop", "jeremy-pope">> >>

KNOWN_VIDEO_IDS == <<
    <<"francois-girard", "frNkePt5Eac">>,
    <<"janelle-monae", "iBpffnfc3AI">>,
    <<"roger-and-james-deakins", "juhiRVORJ8o">>,
    <<"lila-aviles", "0PMTo4SK__s">>,
    <<"hlynur-palmason", "gowVPl5YriI">>,
    <<"tracy-letts", "EQ7jDVdL5Ko">>,
    <<"seth-meyers", "-pfZlhfY4JM">>,
    <<"franklin-leonard", "5YfyrBaAWpE">> >>

\* as Python builds the literal: a repeated key keeps its first position and
\* takes its last value
KNOWN_CRITERION_URLS == <<
    <<"francois-girard", "https://www.criterion.com/shop/collection/838-francois-girard-s-closet-picks">>,
    <<"janelle-monae", "https://www.criterion.com/shop/collection/733-janelle-monae-s-closet-picks">>,
    <<"roger-and-james-deakins", "https://www.criterion.com/shop/collection/566-roger-james-deakins-s-closet-picks">>,
    <<"tracy-letts", "https://www.criterion.com/shop/collection/879-tracy-letts-s-closet-picks">>,
    <<"seth-meyers", None>>,
    <<"franklin-leonard", "https://www.criterion.com/shop/collection/802-franklin-leonard-s-closet-picks">>,
    <<"robert-eggers", "https://www.criterion.com/shop/collection/769-robert-eggers-s-closet-picks">>,
    <<"todd-haynes", "https://www.criterion.com/shop/collection/591-todd-haynes-s-closet-picks">>,
    <<"hans-zimmer", "https://www.criterion.com/shop/collection/793-hans-zimmer-s-closet-picks">>,
    <<"ryusuke-hamaguchi", "https://www.criterion.com/shop/collection/652-ryusuke-hamaguchi-s-closet-picks">>,
    <<"gael-garca-bernal", "https://www.criterion.com/shop/collection/616-gael-garcia-bernal-s-closet-picks">>,
    <<"karina-longworth", "https://www.criterion.com/shop/collection/455-karina-longworth-s-closet-picks">>,
    <<"anton-corbijn", "https://www.criterion.com/shop/collection/571-anton-corbijn-s-closet-picks">>,
    <<"joel-potrykus", "https://www.criterion.com/shop/collection/806-joel-potrykus-s-closet-picks">>,
    <<"coralie-fargeat", None>>,
    <<"isabella-rossellini", None>>,
    <<"pablo-larran", "https://www.criterion.com/shop/collection/766-pablo-larrain-s-closet-picks">>,
    <<"pauline-chalamet", "https://www.criterion.com/shop/collection/536-pauline-chalamets-closet-picks">>,
    <<"india-donaldson-and-lily-collias", None>>,
    <<"lee-daniels", "https://www.criterion.com/shop/collection/682-lee-daniels-s-closet-picks">> >>

NAME_FIXES == <<
    <<"David and Nathan Zellner's Criterion Picks", "David and Nathan Zellner">>,
    <<"Katya Zamolodchikova's Closet Picks", "Katya Zamolodchikova">>,
    <<"Seth Myers", "Seth Meyers">>,
    <<"Waych & shopVince Staples", "Vince Staples">>,
    <<"Watch& & shop", "Jeremy Pope">>,
    <<"Claire Denis'", "Claire Denis">>,
    <<"Five Comics'", "Five Comics">> >>

GUEST_TYPE_TAGS == <<
    <<"that-one-time-five-comics-raided-the-criterion-closet", "group">>,
    <<"m3gan", "character">>,
    <<"letterboxd-visits-the-criterion-mobile-closet-at-sxsw", "event">>,
    <<"letterboxd", "event">> >>

\* utils.py
VISIT_CRITERION_URLS == <<
    <<"bill-hader", <<"https://www.criterion.com/shop/collection/488-bill-hader-s-closet-picks-2011",
                      "https://www.criterion.com/shop/collection/720-bill-hader-s-closet-picks">> >>,
    <<"guillermo-del-toro", <<"https://www.criterion.com/shop/collection/645-guillermo-del-toro-s-closet-picks",
                              "https://www.criterion.com/shop/collection/911-guillermo-del-toro-s-closet-picks">> >>,
    <<"ari-aster", <<"https://www.criterion.com/shop/collection/544-ari-aster-s-closet-picks-2023",
                     "https://www.criterion.com/shop/collection/856-ari-aster-s-closet-picks">> >>,
    <<"michael-cera", <<"https://www.criterion.com/shop/collection/491-michael-cera-s-closet-picks-2014",
                        "https://www.criterion.com/shop/collection/823-michael-cera-s-closet-picks">> >>,
    <<"yorgos-lanthimos", <<"https://www.criterion.com/shop/collection/467-yorgos-lanthimos-ariane-labed-s-closet-picks",
                            "https://www.criterion.com/shop/collection/900-yorgos-lanthimos-s-closet-picks">> >>,
    <<"edgar-wright", <<"https://www.criterion.com/shop/collection/490-edgar-wright-s-closet-picks",
                        "https://www.criterion.com/shop/collection/887-edgar-wright-s-closet-picks">> >>,
    <<"benny-safdie", <<"https://www.criterion.com/shop/collection/476-josh-and-benny-safdie-s-closet-picks",
                        "https://www.criterion.com/shop/collection/880-benny-safdie-s-closet-picks">> >>,
    <<"barry-jenkins", <<"https://www.criterion.com/shop/collection/470-barry-jenkins-s-closet-picks">> >>,
    <<"isabelle-huppert", <<"https://www.criterion.com/shop/collection/741-isabelle-huppert-s-closet-picks">> >>,
    <<"griffin-dunne", <<"https://www.criterion.com/shop/collection/795-griffin-dunne-s-closet-picks">> >>,
    <<"wim-wenders", <<"https://www.criterion.com/shop/collection/634-wim-wenders-closet-picks">> >>,
    <<"jason-bateman", <<"https://www.criterion.com/shop/collection/881-jason-bateman-s-closet-picks">> >>,
    <<"ben-whishaw", <<"https://www.criterion.com/shop/collection/885-ben-whishaw-s-closet-picks">> >>,
    <<"franklin-leonard", <<"https://www.criterion.com/shop/collection/802-franklin-leonard-s-closet-picks">> >>,
    <<"hans-zimmer", <<"https://www.criterion.com/shop/collection/793-hans-zimmer-s-closet-picks">> >>,
    <<"daniels", <<"https://www.criterion.com/shop/collection/522-daniels-closet-picks">> >>,
    <<"five-comics", <<"https://www.criterion.com/shop/collection/443-five-comics-closet-picks">> >> >>

(***************************************************************************)
(* normalize_guests.py: helpers                                            *)
(***************************************************************************)
\* index of the first guest with this slug, 0 when there is none
guest_by_slug(gs, slug) ==
    IF \E i \in DOMAIN gs : gs[i].slug = slug
    THEN CHOOSE i \in DOMAIN gs : gs[i].slug = slug /\ \A j \in 1..(i - 1) : gs[j].slug # slug
    ELSE 0

remove_guest(gs, slug) ==
    IF guest_by_slug(gs, slug) = 0 THEN gs ELSE Pop(gs, guest_by_slug(gs, slug))

build_visit(g) ==
    [ youtube_video_id |-> g.youtube_video_id,
      youtube_video_url |-> g.youtube_video_url,
      vimeo_video_id |-> g.vimeo_video_id,
      episode_date |-> g.episode_date,
      letterboxd_list_url |-> g.letterboxd_list_url,
      criterion_page_url |-> g.criterion_page_url ]

merge_guest_fields(primary, secondary) ==
    [ primary EXCEPT
        !.profession = IF ~Truthy(@) /\ Truthy(secondary.profession) THEN secondary.profession ELSE @,
        !.photo_url = IF ~Truthy(@) /\ Truthy(secondary.photo_url) THEN secondary.photo_url ELSE @,
        !.episode_date = IF ~Truthy(@) /\ Truthy(secondary.episode_date) THEN secondary.episode_date ELSE @ ]

\* A re-pointing that stops after the first matching pick.
update_first_pick_guest_slug(ps, old_slug, new_slug) ==
    [ i \in DOMAIN ps |->
        IF ps[i].guest_slug = old_slug /\ \A j \in 1..(i - 1) : ps[j].guest_slug # old_slug
        THEN [ps[i] EXCEPT !.guest_slug = new_slug] ELSE ps[i] ]

update_picks_guest_slug(ps, old_slug, new_slug) ==
    [ i \in DOMAIN ps |->
        IF ps[i].guest_slug = old_slug THEN [ps[i] EXCEPT !.guest_slug = new_slug] ELSE ps[i] ]

confidence_rank(c) ==
    CASE c = "high" -> 3 [] c = "medium" -> 2 [] c = "low" -> 1 [] OTHER -> 0

\* p.get("film_slug") or p.get("film_id", "")
film_key(p) == IF Truthy(p.film_slug) THEN p.film_slug ELSE IF p.film_id = None THEN "" ELSE p.film_id

pick_key(p) == <<p.guest_slug, film_key(p)>>

\* index in result of the entry with this key, 0 when there is none
SeenAt(result, key, KeyOf(_)) ==
    IF \E i \in DOMAIN result : KeyOf(result[i]) = key
    THEN CHOOSE i \in DOMAIN result : KeyOf(result[i]) = key
    ELSE 0

RECURSIVE dedup_picks_from(_, _, _)
dedup_picks_from(ps, i, result) ==
    IF i > Len(ps) THEN result
    ELSE LET p == ps[i]
             at == SeenAt(result, pick_key(p), pick_key)
             conf == confidence_rank(p.extraction_confidence)
         IN dedup_picks_from(ps, i + 1,
                IF at # 0
                THEN IF conf > confidence_rank(result[at].extraction_confidence)
                     THEN [result EXCEPT ![at] = p]
                     ELSE result
                ELSE Append(result, p))

dedup_picks(ps) == dedup_picks_from(ps, 1, <<>>)

raw_key(p) == <<p.guest_slug, IF p.film_id = None THEN "" ELSE p.film_id>>

RECURSIVE dedup_picks_raw_from(_, _, _)
dedup_picks_raw_from(ps, i, result) ==
    IF i > Len(ps) THEN result
    ELSE LET p == ps[i]
             at == SeenAt(result, raw_key(p), raw_key)
         IN dedup_picks_raw_from(ps, i + 1,
                IF at = 0
                THEN Append(result, p)
                ELSE IF p.source = "criterion" /\ result[at].source # "criterion"
                     THEN [result EXCEPT ![at] = p]
                     ELSE result)

dedup_picks_raw(ps) == dedup_picks_raw_from(ps, 1, <<>>)

\* number of records of ps that carry this guest slug
CountFor(ps, slug) == Cardinality({i \in DOMAIN ps : ps[i].guest_slug = slug})

recompute_pick_counts(gs, ps, raw) ==
    [ i \in DOMAIN gs |->
        [gs[i] EXCEPT !.pick_count =
            IF CountFor(ps, gs[i].slug) > 0
            THEN CountFor(ps, gs[i].slug)
            ELSE CountFor(raw, gs[i].slug)] ]

YoutubeUrl(id) == "https://www.youtube.com/watch?v=" \o id

(***************************************************************************)
(* normalize_guests.py: normalize().  S is the in-memory state of one run: *)
(* [guests, picks, picks_raw].  Each numbered section of the function is   *)
(* one operator applied to every entry of its table in source order.  The  *)
(* loops evaluate each iteration's state (the test on Len) before the next *)
(* iteration starts, as the interpreter does.                              *)
(***************************************************************************)

\* --- 0. Slug fixes
SlugFix(S, fix) ==
    LET i == guest_by_slug(S.guests, fix[1]) IN
    IF i = 0 THEN S
    ELSE [ guests |-> [S.guests EXCEPT ![i].slug = fix[2]],
           picks |-> update_picks_guest_slug(S.picks, fix[1], fix[2]),
           picks_raw |-> update_picks_guest_slug(S.picks_raw, fix[1], fix[2]) ]

RECURSIVE SlugFixes(_, _)
SlugFixes(S, k) ==
    IF k > Len(SLUG_FIXES) THEN S
    ELSE LET T == SlugFix(S, SLUG_FIXES[k])
         IN IF Len(T.guests) >= 0 THEN SlugFixes(T, k + 1) ELSE S

\* --- 1. Name cleanup
NameCleanup(S) ==
    [ S EXCEPT !.guests =
        [ i \in DOMAIN S.guests |->
            IF HasKey(NAME_FIXES, S.guests[i].name)
            THEN [S.guests[i] EXCEPT !.name = Get(NAME_FIXES, S.guests[i].name)]
            ELSE S.guests[i] ] ]

\* --- 2. Visits arrays and repeat-visit merges
BlankVisit(url) ==
    [ youtube_video_id |-> None,
      youtube_video_url |-> None,
      vimeo_video_id |-> None,
      episode_date |-> None,
      letterboxd_list_url |-> NoKey,
      criterion_page_url |-> url ]

\* whether the loop body for this slug reaches the merge of the secondary
RepeatMergeApplies(gs, slug, urls) ==
    /\ guest_by_slug(gs, slug) # 0
    /\ Len(urls) >= 2
    /\ Truthy(Get(REPEAT_VISIT_MERGES, slug))
    /\ guest_by_slug(gs, Get(REPEAT_VISIT_MERGES, slug)) # 0

BuildVisits(S, entry) ==
    LET slug == entry[1]
        urls == entry[2]
        i == guest_by_slug(S.guests, slug)
    IN
    IF i = 0 THEN S
    ELSE IF Len(urls) < 2
    THEN IF ~Truthy(S.guests[i].criterion_page_url)
         THEN [S EXCEPT !.guests[i].criterion_page_url = urls[1]]
         ELSE S
    ELSE
    LET g == S.guests[i]
        existing_visits == g.visits
        visit1 ==
            [ build_visit(g) EXCEPT
                !.criterion_page_url = urls[1],
                !.episode_date =
                    IF Len(existing_visits) > 0 /\ Truthy(existing_visits[1].episode_date)
                    THEN existing_visits[1].episode_date ELSE @ ]
        kept2 ==
            IF /\ Len(existing_visits) > 1
               /\ \/ Truthy(existing_visits[2].youtube_video_id)
                  \/ Truthy(existing_visits[2].vimeo_video_id)
            THEN [existing_visits[2] EXCEPT !.criterion_page_url = urls[2]]
            ELSE BlankVisit(urls[2])
        merged == RepeatMergeApplies(S.guests, slug, urls)
        secondary_slug == Get(REPEAT_VISIT_MERGES, slug)
        secondary == S.guests[guest_by_slug(S.guests, secondary_slug)]
        built2 ==
            IF merged
            THEN [build_visit(secondary) EXCEPT !.criterion_page_url = urls[2]]
            ELSE kept2
        visit2 ==
            IF Truthy(visit1.youtube_video_id) /\ visit1.youtube_video_id = built2.youtube_video_id
            THEN [built2 EXCEPT !.youtube_video_id = None, !.youtube_video_url = None]
            ELSE built2
        g1 == IF merged THEN merge_guest_fields(g, secondary) ELSE g
        g2 == [g1 EXCEPT !.visits = <<visit1, visit2>>, !.criterion_page_url = urls[1]]
        guests1 == [S.guests EXCEPT ![i] = g2]
    IN
    IF merged
    THEN [ guests |-> remove_guest(guests1, secondary_slug),
           picks |-> update_picks_guest_slug(S.picks, secondary_slug, slug),
           picks_raw |-> update_picks_guest_slug(S.picks_raw, secondary_slug, slug) ]
    ELSE [S EXCEPT !.guests = guests1]

RECURSIVE BuildAllVisits(_, _)
BuildAllVisits(S, k) ==
    IF k > Len(VISIT_CRITERION_URLS) THEN S
    ELSE LET T == BuildVisits(S, VISIT_CRITERION_URLS[k])
         IN IF Len(T.guests) >= 0 THEN BuildAllVisits(T, k + 1) ELSE S

\* --- 3. and 4. Name-variant and solo-into-pair merges: the same loop body
MergeApplies(gs, primary_slug, secondary_slug) ==
    guest_by_slug(gs, primary_slug) # 0 /\ guest_by_slug(gs, secondary_slug) # 0

MergeInto(S, pair) ==
    LET primary_slug == pair[1]
        secondary_slug == pair[2]
        i == guest_by_slug(S.guests, primary_slug)
        j == guest_by_slug(S.guests, secondary_slug)
    IN
    IF ~MergeApplies(S.guests, primary_slug, secondary_slug) THEN S
    ELSE [ guests |-> remove_guest(
                        [S.guests EXCEPT ![i] = merge_guest_fields(S.guests[i], S.guests[j])],
                        secondary_slug),
           picks |-> update_picks_guest_slug(S.picks, secondary_slug, primary_slug),
           picks_raw |-> update_picks_guest_slug(S.picks_raw, secondary_slug, primary_slug) ]

RECURSIVE MergeAll(_, _, _)
MergeAll(S, table, k) ==
    IF k > Len(table) THEN S
    ELSE LET T == MergeInto(S, table[k])
         IN IF Len(T.guests) >= 0 THEN MergeAll(T, table, k + 1) ELSE S

\* --- 5. New pair entry
NewPairApplies(gs) ==
    /\ guest_by_slug(gs, NEW_PAIR.slug) = 0
    /\ \A k \in DOMAIN NEW_PAIR.from_slugs : guest_by_slug(gs, NEW_PAIR.from_slugs[k]) # 0

RECURSIVE MergeSources(_, _, _)
MergeSources(new_guest, sources, k) ==
    IF k > Len(sources) THEN new_guest
    ELSE MergeSources(merge_guest_fields(new_guest, sources[k]), sources, k + 1)

RECURSIVE ReassignSources(_, _)
ReassignSources(S, k) ==
    IF k > Len(NEW_PAIR.from_slugs) THEN S
    ELSE LET T == [ guests |-> remove_guest(S.guests, NEW_PAIR.from_slugs[k]),
                    picks |-> update_picks_guest_slug(S.picks, NEW_PAIR.from_slugs[k], NEW_PAIR.slug),
                    picks_raw |-> update_picks_guest_slug(S.picks_raw, NEW_PAIR.from_slugs[k], NEW_PAIR.slug) ]
         IN IF Len(T.guests) >= 0 THEN ReassignSources(T, k + 1) ELSE S

NewPair(S) ==
    IF ~NewPairApplies(S.guests) THEN S
    ELSE LET source_guests ==
                 [ k \in DOMAIN NEW_PAIR.from_slugs |->
                     S.guests[guest_by_slug(S.guests, NEW_PAIR.from_slugs[k])] ]
             template ==
                 [ source_guests[1] EXCEPT
                     !.name = NEW_PAIR.name,
                     !.slug = NEW_PAIR.slug,
                     !.youtube_video_id = NEW_PAIR.shared_video,
                     !.youtube_video_url = YoutubeUrl(NEW_PAIR.shared_video) ]
             new_guest == MergeSources(template, source_guests, 2)
         IN ReassignSources([S EXCEPT !.guests = Append(S.guests, new_guest)], 1)

\* --- 6. Wrong video fixes
WrongVideoFix(S, fix) ==
    LET i == guest_by_slug(S.guests, fix[1]) IN
    IF i = 0 THEN S
    ELSE IF S.guests[i].youtube_video_id = fix[2]
    THEN [S EXCEPT !.guests[i].youtube_video_id = None,
                   !.guests[i].youtube_video_url = None,
                   !.guests[i].vimeo_video_id = None]
    ELSE S

RECURSIVE WrongVideoFixes(_, _)
WrongVideoFixes(S, k) ==
    IF k > Len(WRONG_VIDEO_FIXES) THEN S
    ELSE LET T == WrongVideoFix(S, WRONG_VIDEO_FIXES[k])
         IN IF Len(T.guests) >= 0 THEN WrongVideoFixes(T, k + 1) ELSE S

\* --- 6b. Known video ids
KnownVideoFix(S, entry) ==
    LET i == guest_by_slug(S.guests, entry[1]) IN
    IF i = 0 THEN S
    ELSE IF Truthy(S.guests[i].youtube_video_id) THEN S
    ELSE IF Truthy(entry[2])
    THEN [S EXCEPT !.guests[i].youtube_video_id = entry[2],
                   !.guests[i].youtube_video_url = YoutubeUrl(entry[2])]
    ELSE S

RECURSIVE KnownVideoFixes(_, _)
KnownVideoFixes(S, k) ==
    IF k > Len(KNOWN_VIDEO_IDS) THEN S
    ELSE LET T == KnownVideoFix(S, KNOWN_VIDEO_IDS[k])
         IN IF Len(T.guests) >= 0 THEN KnownVideoFixes(T, k + 1) ELSE S

\* --- 6c. Known Criterion page URLs
KnownUrlFix(S, entry) ==
    LET i == guest_by_slug(S.guests, entry[1]) IN
    IF ~Truthy(entry[2]) THEN S
    ELSE IF i = 0 THEN S
    ELSE IF Truthy(S.guests[i].criterion_page_url) THEN S
    ELSE [S EXCEPT !.guests[i].criterion_page_url = entry[2]]

RECURSIVE KnownUrlFixes(_, _)
KnownUrlFixes(S, k) ==
    IF k > Len(KNOWN_CRITERION_URLS) THEN S
    ELSE LET T == KnownUrlFix(S, KNOWN_CRITERION_URLS[k])
         IN IF Len(T.guests) >= 0 THEN KnownUrlFixes(T, k + 1) ELSE S

\* --- 7. Non-person tagging
TypeTag(S, entry) ==
    LET i == guest_by_slug(S.guests, entry[1]) IN
    IF i = 0 THEN S
    ELSE IF S.guests[i].guest_type # entry[2]
    THEN [S EXCEPT !.guests[i].guest_type = entry[2]]
    ELSE S

RECURSIVE TypeTags(_, _)
TypeTags(S, k) ==
    IF k > Len(GUEST_TYPE_TAGS) THEN S
    ELSE LET T == TypeTag(S, GUEST_TYPE_TAGS[k])
         IN IF Len(T.guests) >= 0 THEN TypeTags(T, k + 1) ELSE S

\* --- 8. Criterion page URLs per visit
VisitUrlFix(S, entry) ==
    LET urls == entry[2]
        i == guest_by_slug(S.guests, entry[1])
    IN
    IF i = 0 THEN S
    ELSE [S EXCEPT
            !.guests[i].criterion_page_url = urls[1],
            !.guests[i].visits =
                [ v \in DOMAIN @ |->
                    [@[v] EXCEPT !.criterion_page_url = IF v <= Len(urls) THEN urls[v] ELSE None] ] ]

RECURSIVE VisitUrlFixes(_, _)
VisitUrlFixes(S, k) ==
    IF k > Len(VISIT_CRITERION_URLS) THEN S
    ELSE LET T == VisitUrlFix(S, VISIT_CRITERION_URLS[k])
         IN IF Len(T.guests) >= 0 THEN VisitUrlFixes(T, k + 1) ELSE S

\* --- 9. Dedup picks and recompute pick counts
DedupAndCount(S) ==
    LET ps == dedup_picks(S.picks)
        raw == dedup_picks_raw(S.picks_raw)
    IN [ guests |-> recompute_pick_counts(S.guests, ps, raw), picks |-> ps, picks_raw |-> raw ]

\* the state of a run after its merge sections 0 to 5
MergeSections(S) ==
    NewPair(
      MergeAll(
        MergeAll(
          BuildAllVisits(NameCleanup(SlugFixes(S, 1)), 1),
          NAME_VARIANT_MERGES, 1),
        SOLO_INTO_PAIR_MERGES, 1))

normalize(S) ==
    DedupAndCount(
      VisitUrlFixes(
        TypeTags(
          KnownUrlFixes(
            KnownVideoFixes(
              WrongVideoFixes(MergeSections(S), 1),
              1),
            1),
          1),
        1))

(***************************************************************************)
(* The normalize pass as a state machine.                                  *)
(*                                                                         *)
(* The input documents are drawn from guest families: the slugs that one   *)
(* directive names together.  The directive tables name pairwise disjoint  *)
(* slugs, and every section of normalize() reads and writes guests one     *)
(* slug at a time, so guests of different families do not interact.        *)
(***************************************************************************)
MaxPicks == 2
MaxRawPicks == 1
MaxRuns == 2

GuestFamilies == {
    <<"guillermo-del-toro", "guillermo-del-toros-second">>,
    <<"barry-jenkins", "barry-jenkins-second">>,
    <<"roger-and-james-deakins", "roger-james-deakins">>,
    <<"seth-rogen-evan-goldberg", "seth-rogen">>,
    <<"john-early", "jacqueline-novak", "john-early-jacqueline-novak">>,
    <<"seth-myers", "seth-meyers">>,
    <<"matt-johnson", "m3gan">> }

GuestNames == <<
    <<"guillermo-del-toro", "Guillermo del Toro">>,
    <<"guillermo-del-toros-second", "Guillermo del Toro's Second">>,
    <<"barry-jenkins", "Barry Jenkins">>,
    <<"barry-jenkins-second", "Barry Jenkins' Second">>,
    <<"roger-and-james-deakins", "Roger and James Deakins">>,
    <<"roger-james-deakins", "Roger & James Deakins">>,
    <<"seth-rogen-evan-goldberg", "Seth Rogen & Evan Goldberg">>,
    <<"seth-rogen", "Seth Rogen">>,
    <<"john-early", "John Early">>,
    <<"jacqueline-novak", "Jacqueline Novak">>,
    <<"john-early-jacqueline-novak", "John Early and Jacqueline Novak">>,
    <<"seth-myers", "Seth Myers">>,
    <<"seth-meyers", "Seth Meyers">>,
    <<"matt-johnson", "Matt Johnson">>,
    <<"m3gan", "M3GAN">> >>

\* the slugs whose video id some section of normalize() reads
VideoSlugs ==
    {REPEAT_VISIT_MERGES[k][j] : k \in DOMAIN REPEAT_VISIT_MERGES, j \in 1..2}
    \cup {WRONG_VIDEO_FIXES[k][1] : k \in DOMAIN WRONG_VIDEO_FIXES}
    \cup {KNOWN_VIDEO_IDS[k][1] : k \in DOMAIN KNOWN_VIDEO_IDS}

\* the video ids a scraped guest record may carry: none, a video of its own,
\* the video a wrong-video directive names, or (for a second-visit record) the
\* video of the first visit
VideoChoices(slug) ==
    (IF slug \in VideoSlugs THEN {None, "vid-" \o slug} ELSE {None})
    \cup (IF HasKey(WRONG_VIDEO_FIXES, slug) THEN {Get(WRONG_VIDEO_FIXES, slug)} ELSE {})
    \cup {"vid-" \o REPEAT_VISIT_MERGES[k][1] :
             k \in {k \in DOMAIN REPEAT_VISIT_MERGES : REPEAT_VISIT_MERGES[k][2] = slug}}

DateChoices == {None, "2024-05-01"}

ScrapedGuest(slug, vid, date) ==
    [ slug |-> slug,
      name |-> Get(GuestNames, slug),
      youtube_video_id |-> vid,
      youtube_video_url |-> IF vid = None THEN None ELSE YoutubeUrl(vid),
      vimeo_video_id |-> None,
      episode_date |-> date,
      letterboxd_list_url |-> None,
      criterion_page_url |-> None,
      profession |-> IF date = None THEN None ELSE "Director",
      photo_url |-> None,
      guest_type |-> None,
      visits |-> <<>>,
      pick_count |-> 0 ]

NormFilms == {"f1", "f2"}
NormConfidences == {"high", "low"}

NormPick(slug, film, conf) ==
    [ guest_slug |-> slug,
      film_slug |-> film,
      film_id |-> film,
      extraction_confidence |-> conf,
      quote |-> IF conf = "high" THEN "said by " \o slug ELSE "" ]

NormRawPick(slug, film, source) ==
    [ guest_slug |-> slug, film_id |-> film, source |-> source ]

\* all sequences over S of length at most n
SeqsUpTo(S, n) == UNION {[1..k -> S] : k \in 0..n}

NoDocs == [guests |-> <<>>, picks |-> <<>>, picks_raw |-> <<>>]

InitNormalize ==
    \E family \in GuestFamilies :
    \E present \in SUBSET DOMAIN family :
    \E vid \in [present -> UNION {VideoChoices(family[k]) : k \in present}] :
    \E date \in [present -> DateChoices] :
        /\ \A k \in present : vid[k] \in VideoChoices(family[k])
        /\ guests = SelectIdx([k \in DOMAIN family |->
                                 IF k \in present THEN ScrapedGuest(family[k], vid[k], date[k]) ELSE None],
                              present, 1)
        /\ picks \in SeqsUpTo({NormPick(family[k], f, c) :
                                 k \in present, f \in NormFilms, c \in NormConfidences}, MaxPicks)
        /\ picks_raw \in SeqsUpTo({NormRawPick(family[k], "f1", src) :
                                     k \in present, src \in {"criterion", "letterboxd"}}, MaxRawPicks)
        /\ catalog = <<>>
        /\ before = NoDocs
        /\ last = [op |-> "none"]
        /\ runs = 0
        /\ checkpoint = <<>>
        /\ lock = <<>>
        /\ threads = NoThreads

Docs == [guests |-> guests, picks |-> picks, picks_raw |-> picks_raw]

\* normalize(dry_run): load the three documents, rewrite them, save unless dry_run
Normalize ==
    \E dry_run \in BOOLEAN :
        /\ runs < MaxRuns
        /\ runs' = runs + 1
        /\ before' = Docs
        /\ last' = [op |-> "normalize", dry_run |-> dry_run]
        /\ IF dry_run
           THEN UNCHANGED <<guests, picks, picks_raw>>
           ELSE LET out == normalize(Docs)
                IN /\ guests' = out.guests
                   /\ picks' = out.picks
                   /\ picks_raw' = out.picks_raw
        /\ UNCHANGED catalog
        /\ UNCHANGED <<checkpoint, lock, threads>>

NextNormalize == Normalize

SpecNormalize == InitNormalize /\ [][NextNormalize]_vars

(***************************************************************************)
(* Claims about normalize()                                                *)
(***************************************************************************)
\* the state is the saved output of a normalize() run
AfterNormalize == last.op = "normalize" /\ ~last.dry_run

SlugsOf(gs) == {gs[i].slug : i \in DOMAIN gs}
SlugsDistinct(gs) == \A i, j \in DOMAIN gs : gs[i].slug = gs[j].slug => i = j
GuestOf(gs, slug) == gs[guest_by_slug(gs, slug)]
FilmKeysFor(ps, slugs) == {film_key(ps[i]) : i \in {i \in DOMAIN ps : ps[i].guest_slug \in slugs}}

\* the merges a run applies to the guests gs it loads, as
\* <<surviving slug, absorbed slugs>>
MergesApplied(gs) ==
    {<<VISIT_CRITERION_URLS[k][1], {Get(REPEAT_VISIT_MERGES, VISIT_CRITERION_URLS[k][1])}>> :
        k \in {k \in DOMAIN VISIT_CRITERION_URLS :
                 RepeatMergeApplies(gs, VISIT_CRITERION_URLS[k][1], VISIT_CRITERION_URLS[k][2])}}
    \cup {<<NAME_VARIANT_MERGES[k][1], {NAME_VARIANT_MERGES[k][2]}>> :
        k \in {k \in DOMAIN NAME_VARIANT_MERGES :
                 MergeApplies(gs, NAME_VARIANT_MERGES[k][1], NAME_VARIANT_MERGES[k][2])}}
    \cup {<<SOLO_INTO_PAIR_MERGES[k][1], {SOLO_INTO_PAIR_MERGES[k][2]}>> :
        k \in {k \in DOMAIN SOLO_INTO_PAIR_MERGES :
                 MergeApplies(gs, SOLO_INTO_PAIR_MERGES[k][1], SOLO_INTO_PAIR_MERGES[k][2])}}
    \cup (IF NewPairApplies(gs) THEN {<<NEW_PAIR.slug, Range(NEW_PAIR.from_slugs)>>} ELSE {})

\* the guests as the pipeline reads them: a key that a visit does not carry
\* reads as null
AsRead(gs) ==
    [ i \in DOMAIN gs |->
        [ gs[i] EXCEPT !.visits =
            [ v \in DOMAIN @ |->
                [ @[v] EXCEPT !.letterboxd_list_url = IF @ = NoKey THEN None ELSE @ ] ] ] ]

\* C1 (as claimed): a normalize() run on the saved output of a normalize() run
\* changes nothing: the guests (with every visit's fields, as read), the picks
\* and the raw picks after the second run are those after the first.
C1_SecondRunChangesNothing ==
    [][AfterNormalize =>
          (AsRead(guests') = AsRead(guests) /\ picks' = picks /\ picks_raw' = picks_raw)]_vars

\* C2 (as claimed): for every merge a run applied, the picks that reference the
\* surviving guest afterwards are as many as those that referenced the
\* survivor or an absorbed guest before.
C2_MergeKeepsPickCount ==
    AfterNormalize =>
        \A m \in MergesApplied(before.guests) :
            CountFor(picks, m[1]) =
                Cardinality({i \in DOMAIN before.picks : before.picks[i].guest_slug \in {m[1]} \cup m[2]})

\* C2 (amended): for every merge a run applied, the surviving guest afterwards
\* has exactly one pick for each film that the survivor or an absorbed guest
\* had a pick for before: a pick is dropped only as the duplicate of a kept
\* pick of the same guest and film.
C2_MergeKeepsPickedFilms ==
    AfterNormalize =>
        \A m \in MergesApplied(before.guests) :
            /\ FilmKeysFor(picks, {m[1]}) = FilmKeysFor(before.picks, {m[1]} \cup m[2])
            /\ CountFor(picks, m[1]) = Cardinality(FilmKeysFor(before.picks, {m[1]} \cup m[2]))

\* C2 witness: a run applied a merge whose absorbed guest had picks, and a
\* duplicate pick was dropped.
C2_Witness ==
    /\ AfterNormalize
    /\ \E m \in MergesApplied(before.guests) :
          /\ FilmKeysFor(before.picks, m[2]) # {}
          /\ CountFor(picks, m[1]) < Len(before.picks)
          /\ CountFor(picks, m[1]) > 0

\* C3 (as claimed): after a run, for every repeat-visit directive whose primary
\* and secondary records both existed before it, the secondary record is gone,
\* the primary has exactly two visits and no pick or raw pick carries the
\* secondary slug.
C3_RepeatVisitMerged ==
    AfterNormalize =>
        \A k \in DOMAIN REPEAT_VISIT_MERGES :
            LET primary == REPEAT_VISIT_MERGES[k][1]
                secondary == REPEAT_VISIT_MERGES[k][2]
            IN (guest_by_slug(before.guests, primary) # 0 /\ guest_by_slug(before.guests, secondary) # 0)
               => /\ guest_by_slug(guests, secondary) = 0
                  /\ guest_by_slug(guests, primary) # 0
                  /\ Len(GuestOf(guests, primary).visits) = 2
                  /\ CountFor(picks, secondary) = 0
                  /\ CountFor(picks_raw, secondary) = 0

\* C4 (as claimed): if the guest slugs were pairwise distinct before a run they
\* are pairwise distinct after it.
C4_SlugsStayDistinct ==
    AfterNormalize => (SlugsDistinct(before.guests) => SlugsDistinct(guests))

(***************************************************************************)
(* fix_film_id_collisions.py: configuration.  Spine numbers and years are  *)
(* kept as the strings of their digits so that a missing one can be null;  *)
(* directors' names are written without their diacritics.                  *)
(***************************************************************************)
Correction(film_id, title, year, director, criterion_url) ==
    [ film_id |-> film_id, title |-> title, year |-> year,
      director |-> director, criterion_url |-> criterion_url ]

SPINE_CORRECTIONS == <<
    <<"848", Correction("roma-1972", "Roma", "1972", "Federico Fellini",
                        "https://www.criterion.com/films/28039-roma")>>,
    <<"1014", Correction("roma-2018", "Roma", "2018", "Alfonso Cuaron",
                         "https://www.criterion.com/films/30124-roma")>>,
    <<"622", Correction("weekend-1967", "Weekend", "1967", "Jean-Luc Godard",
                        "https://www.criterion.com/films/28441-weekend")>>,
    <<"635", Correction("weekend-2011", "Weekend", "2011", "Andrew Haigh",
                        "https://www.criterion.com/films/27783-weekend")>>,
    <<"563", Correction("something-wild-1961", "Something Wild", "1961", "Jack Garfein",
                        "https://www.criterion.com/films/28777-something-wild")>>,
    <<"850", Correction("something-wild-1986", "Something Wild", "1986", "Jonathan Demme",
                        "https://www.criterion.com/films/27603-something-wild")>>,
    <<"477", Correction("bergman-island-2006", "Bergman Island", "2006", "Marie Nyrerod",
                        "https://www.criterion.com/films/556-bergman-island")>>,
    <<"1170", Correction("bergman-island-2021", "Bergman Island", "2021", "Mia Hansen-Love",
                         "https://www.criterion.com/films/33380-bergman-island")>>,
    <<"1078", Correction("nightmare-alley-1947", "Nightmare Alley", "1947", "Edmund Goulding", "")>>,
    <<"1286", Correction("nightmare-alley-2021", "Nightmare Alley", "2021", "Guillermo del Toro", "")>> >>

\* criterion film URL -> <<spine, film_id>>
URL_TO_CORRECTION == <<
    <<"https://www.criterion.com/films/28039-roma", <<"848", "roma-1972">> >>,
    <<"https://www.criterion.com/films/30124-roma", <<"1014", "roma-2018">> >>,
    <<"https://www.criterion.com/films/27783-weekend", <<"635", "weekend-2011">> >>,
    <<"https://www.criterion.com/films/28441-weekend", <<"622", "weekend-1967">> >>,
    <<"https://www.criterion.com/films/27603-something-wild", <<"850", "something-wild-1986">> >>,
    <<"https://www.criterion.com/films/28777-something-wild", <<"563", "something-wild-1961">> >>,
    <<"https://www.criterion.com/films/33380-bergman-island", <<"1170", "bergman-island-2021">> >>,
    <<"https://www.criterion.com/films/556-bergman-island", <<"477", "bergman-island-2006">> >> >>

COLLIDING_IDS == {"roma", "weekend", "something-wild", "bergman-island", "nightmare-alley"}

TMDB_FIELDS == <<"tmdb_id", "imdb_id", "poster_url", "genres">>

(***************************************************************************)
(* fix_film_id_collisions.py: the three fixes                              *)
(***************************************************************************)
\* a correction applied without looking at the id the entry already has
fix_catalog_entry_always(entry) ==
    IF ~HasKey(SPINE_CORRECTIONS, entry.spine_number) THEN entry
    ELSE LET correction == Get(SPINE_CORRECTIONS, entry.spine_number)
         IN [ entry EXCEPT
                !.film_id = correction.film_id,
                !.title = correction.title,
                !.year = correction.year,
                !.director = correction.director,
                !.criterion_url = IF correction.criterion_url # "" THEN correction.criterion_url ELSE @,
                !.tmdb_id = NoKey,
                !.imdb_id = NoKey,
                !.poster_url = NoKey,
                !.genres = NoKey ]

\* the body of fix_catalog's loop for one entry
fix_catalog_entry(entry) ==
    IF ~HasKey(SPINE_CORRECTIONS, entry.spine_number) THEN entry
    ELSE LET correction == Get(SPINE_CORRECTIONS, entry.spine_number)
         IN IF entry.film_id = correction.film_id THEN entry
            ELSE [ entry EXCEPT
                     !.film_id = correction.film_id,
                     !.title = correction.title,
                     !.year = correction.year,
                     !.director = correction.director,
                     !.criterion_url = IF correction.criterion_url # "" THEN correction.criterion_url ELSE @,
                     !.tmdb_id = NoKey,
                     !.imdb_id = NoKey,
                     !.poster_url = NoKey,
                     !.genres = NoKey ]

fix_catalog(cat) == [i \in DOMAIN cat |-> fix_catalog_entry(cat[i])]

\* the body of fix_picks_raw's loop for one raw pick
fix_raw_pick(pick) ==
    IF pick.film_id \notin COLLIDING_IDS THEN pick
    ELSE IF ~Truthy(pick.criterion_film_url) THEN pick
    ELSE IF ~HasKey(URL_TO_CORRECTION, pick.criterion_film_url) THEN pick
    ELSE LET correction == Get(URL_TO_CORRECTION, pick.criterion_film_url)
         IN IF pick.film_id = correction[2] /\ pick.catalog_spine = correction[1] THEN pick
            ELSE [pick EXCEPT !.film_id = correction[2], !.catalog_spine = correction[1]]

fix_picks_raw(raw) == [i \in DOMAIN raw |-> fix_raw_pick(raw[i])]

\* str.lower().strip() on the film titles of the model
lower_strip(title) ==
    CASE title = "Roma" -> "roma"
      [] title = "ROMA " -> "roma"
      [] OTHER -> ""

\* raw_url_by_title.get((guest_slug, title)): the URL of the last raw pick of
\* that guest and title whose URL the table knows
raw_url_by_title(raw, guest_slug, title) ==
    LET hits == {i \in DOMAIN raw :
                    /\ Truthy(raw[i].criterion_film_url)
                    /\ HasKey(URL_TO_CORRECTION, raw[i].criterion_film_url)
                    /\ lower_strip(raw[i].film_title) # ""
                    /\ raw[i].guest_slug = guest_slug
                    /\ lower_strip(raw[i].film_title) = title}
    IN IF hits = {} THEN None
       ELSE raw[CHOOSE i \in hits : \A j \in hits : j <= i].criterion_film_url

\* the body of fix_picks' loop for one pick
fix_pick(pick, raw) ==
    LET current_id == film_key(pick)
        raw_url == raw_url_by_title(raw, pick.guest_slug, lower_strip(pick.film_title))
    IN IF current_id \notin COLLIDING_IDS THEN pick
       ELSE IF ~(Truthy(raw_url) /\ HasKey(URL_TO_CORRECTION, raw_url)) THEN pick
       ELSE LET correction == Get(URL_TO_CORRECTION, raw_url)
            IN IF pick.film_slug = correction[2] /\ pick.catalog_spine = correction[1] THEN pick
               ELSE [ pick EXCEPT
                        !.film_slug = IF @ # NoKey THEN correction[2] ELSE @,
                        !.film_id = IF @ # NoKey THEN correction[2] ELSE @,
                        !.catalog_spine = correction[1] ]

fix_picks(ps, raw) == [i \in DOMAIN ps |-> fix_pick(ps[i], raw)]

\* Counter(f["film_id"] for f in catalog), entries with a count above one
dupes(cat) == {cat[i].film_id : i \in {i \in DOMAIN cat : \E j \in DOMAIN cat : j # i /\ cat[j].film_id = cat[i].film_id}}

(***************************************************************************)
(* fix_film_id_collisions.py: the documents it may load, and main()        *)
(***************************************************************************)
MaxCollisionRawPicks == 2
MaxCollisionPicks == 1

\* slugify() on the film titles of the model
slugify(title) ==
    CASE title = "Roma" -> "roma"
      [] title = "ROMA " -> "roma"
      [] title = "Amarcord" -> "amarcord"
      [] title = "La Strada" -> "la-strada"
      [] title = "Pather Panchali (Apu Trilogy)" -> "pather-panchali-apu-trilogy"
      [] title = "Aparajito (Apu Trilogy)" -> "aparajito-apu-trilogy"
      [] title = "The Apu Trilogy" -> "the-apu-trilogy"
      [] title = "Essential Fellini" -> "essential-fellini"
      [] title \in {"Weekend", "weekend"} -> "weekend"
      [] title = "The Weekend" -> "the-weekend"
      [] title \in {"Paris, Texas", "Paris Texas"} -> "paris-texas"
      [] title = "Pather Panchali" -> "pather-panchali"
      [] title = "Solaris" -> "solaris"
      [] title = "The BRD Trilogy" -> "the-brd-trilogy"
      [] title = "Rashomon" -> "rashomon"
      [] OTHER -> ""

make_film_id(title, year) ==
    IF Truthy(year) THEN slugify(title) \o "-" \o year ELSE slugify(title)

\* a catalog entry as build_catalog.py parses it from the spine list
ScrapedEntry(spine, title) ==
    [ spine_number |-> spine, title |-> title, director |-> "", year |-> None,
      criterion_url |-> "", film_id |-> make_film_id(title, None),
      imdb_id |-> None, tmdb_id |-> None, genres |-> "[]", poster_url |-> None ]

\* a catalog entry as backfill_films.py creates it for a picked film that the
\* catalog lacked
make_synthetic_entry(film_id, title, year) ==
    [ spine_number |-> None, title |-> title, director |-> "", year |-> year,
      criterion_url |-> "", film_id |-> film_id,
      imdb_id |-> None, tmdb_id |-> None, genres |-> "[]", poster_url |-> None ]

\* an entry after enrich_tmdb.py matched it by its title alone
Enriched(entry) ==
    [ entry EXCEPT !.tmdb_id = "tmdb:" \o entry.title, !.imdb_id = "imdb:" \o entry.title,
                   !.poster_url = "poster:" \o entry.title, !.genres = "[Drama]",
                   !.year = IF Truthy(@) THEN @ ELSE "2018" ]

CollisionSpines == <<"848", "1014">>

\* the entry of a table spine: as scraped, enriched, already corrected, or
\* corrected and then enriched again
CatalogEntryChoices(spine) ==
    { <<ScrapedEntry(spine, "Roma")>>,
      <<Enriched(ScrapedEntry(spine, "Roma"))>>,
      <<fix_catalog_entry(ScrapedEntry(spine, "Roma"))>>,
      <<Enriched(fix_catalog_entry(ScrapedEntry(spine, "Roma")))>> }

\* a letterboxd pick of the 1972 film that matched no catalog entry gets the
\* id make_film_id(title, year), and backfill_films.py adds an entry for it
SyntheticChoices ==
    { <<>>, <<make_synthetic_entry(make_film_id("Roma", "1972"), "Roma", "1972")>> }

CollisionGuests == {"barry-jenkins", "bong-joon-ho"}

\* <<criterion_film_url, film_id, catalog_spine>> of a pick of a film titled
\* Roma: from Criterion or letterboxd, matched by title to the first catalog
\* entry, or already corrected
RomaPickKinds == {
    <<"https://www.criterion.com/films/28039-roma", "roma", "848">>,
    <<"https://www.criterion.com/films/30124-roma", "roma", "848">>,
    <<"", "roma", "848">>,
    <<"https://www.criterion.com/films/28039-roma", "roma-1972", "848">>,
    <<"https://www.criterion.com/films/30124-roma", "roma-2018", "1014">> }

CollisionRawPick(slug, kind) ==
    [ guest_slug |-> slug, film_title |-> "Roma", criterion_film_url |-> kind[1],
      film_id |-> kind[2], catalog_spine |-> kind[3] ]

CollisionPick(slug, kind, has_slug) ==
    [ guest_slug |-> slug, film_title |-> "Roma", criterion_film_url |-> kind[1],
      film_id |-> kind[2], film_slug |-> IF has_slug THEN kind[2] ELSE NoKey,
      catalog_spine |-> kind[3] ]

\* the scrapers keep one raw pick per (guest_slug, film_id)
RawKeysDistinct(raw) == \A i, j \in DOMAIN raw : raw_key(raw[i]) = raw_key(raw[j]) => i = j

\* a pick is the enriched copy of a raw pick: the guest has a raw pick with
\* the pick's film_id, and it has a Criterion URL if the pick has one
PickHasRaw(pick, raw) ==
    \E i \in DOMAIN raw :
        /\ raw[i].guest_slug = pick.guest_slug
        /\ raw[i].film_id = pick.film_id
        /\ Truthy(pick.criterion_film_url) => Truthy(raw[i].criterion_film_url)

InitCollisions ==
    /\ \E first \in CatalogEntryChoices(CollisionSpines[1]) :
       \E second \in CatalogEntryChoices(CollisionSpines[2]) :
       \E synthetic \in SyntheticChoices :
           catalog = first \o second \o synthetic
    /\ picks_raw \in SeqsUpTo({CollisionRawPick(g, k) : g \in CollisionGuests, k \in RomaPickKinds},
                              MaxCollisionRawPicks)
    /\ RawKeysDistinct(picks_raw)
    /\ picks \in SeqsUpTo({CollisionPick(g, k, b) :
                              g \in CollisionGuests, k \in RomaPickKinds, b \in BOOLEAN},
                          MaxCollisionPicks)
    /\ \A i \in DOMAIN picks : PickHasRaw(picks[i], picks_raw)
    /\ guests = <<>>
    /\ before = [catalog |-> <<>>, picks |-> <<>>, picks_raw |-> <<>>]
    /\ last = [op |-> "none"]
    /\ runs = 0
    /\ checkpoint = <<>>
    /\ lock = <<>>
    /\ threads = NoThreads

\* fix_film_id_collisions.main(): load, fix the catalog, the raw picks and the
\* picks, report the ids that are still shared, save unless --dry-run
FixFilmIdCollisions ==
    \E dry_run \in BOOLEAN :
        LET fixed_catalog == fix_catalog(catalog)
            fixed_raw == fix_picks_raw(picks_raw)
            fixed_picks == fix_picks(picks, fixed_raw)
        IN /\ runs < MaxRuns
           /\ runs' = runs + 1
           /\ before' = [catalog |-> catalog, picks |-> picks, picks_raw |-> picks_raw]
           /\ last' = [op |-> "fix_film_id_collisions", dry_run |-> dry_run,
                       dupes_after |-> dupes(fixed_catalog),
                       rerun |-> last.op = "fix_film_id_collisions"
                                 /\ (~last.dry_run \/ last.rerun)]
           /\ IF dry_run
              THEN UNCHANGED <<catalog, picks_raw, picks>>
              ELSE /\ catalog' = fixed_catalog
                   /\ picks_raw' = fixed_raw
                   /\ picks' = fixed_picks
           /\ UNCHANGED guests
           /\ UNCHANGED <<checkpoint, lock, threads>>

NextCollisions == FixFilmIdCollisions

SpecCollisions == InitCollisions /\ [][NextCollisions]_vars

(***************************************************************************)
(* Claims about the collision corrector                                    *)
(***************************************************************************)
\* the state is the saved output of a run of the corrector
AfterCorrector == last.op = "fix_film_id_collisions" /\ ~last.dry_run

\* every film_id shared by two entries of cat is shared only by entries whose
\* spine numbers the correction table lists
OnlyTableCollisions(cat) ==
    \A i, j \in DOMAIN cat :
        (i # j /\ cat[i].film_id = cat[j].film_id)
            => (HasKey(SPINE_CORRECTIONS, cat[i].spine_number) /\ HasKey(SPINE_CORRECTIONS, cat[j].spine_number))

CatalogIds(cat) == {cat[i].film_id : i \in DOMAIN cat}

\* C5 (as claimed): after a run of the corrector on a catalog whose only shared
\* film_ids are shared between entries of table spines, no two catalog entries
\* share a film_id.
C5_NoSharedFilmId ==
    (AfterCorrector /\ OnlyTableCollisions(before.catalog)) => dupes(catalog) = {}

\* C6 (as claimed): after a run of the corrector, every pick and raw pick that
\* carried a colliding id and whose own criterion_film_url is in the URL table
\* carries the film id and the spine that the table gives for that URL.
C6_RekeyedByOwnUrl ==
    AfterCorrector =>
        /\ \A i \in DOMAIN picks_raw :
              (before.picks_raw[i].film_id \in COLLIDING_IDS
                 /\ HasKey(URL_TO_CORRECTION, before.picks_raw[i].criterion_film_url))
              => <<picks_raw[i].catalog_spine, picks_raw[i].film_id>>
                    = Get(URL_TO_CORRECTION, before.picks_raw[i].criterion_film_url)
        /\ \A i \in DOMAIN picks :
              (film_key(before.picks[i]) \in COLLIDING_IDS
                 /\ HasKey(URL_TO_CORRECTION, before.picks[i].criterion_film_url))
              => <<picks[i].catalog_spine, picks[i].film_id>>
                    = Get(URL_TO_CORRECTION, before.picks[i].criterion_film_url)

\* C7 (as claimed): a run of the corrector that finds a film_id still shared
\* after its corrections writes none of the three documents.
C7_RemainingCollisionWritesNothing ==
    (last.op = "fix_film_id_collisions" /\ last.dupes_after # {})
        => (catalog = before.catalog /\ picks_raw = before.picks_raw /\ picks = before.picks)

\* C8 (as claimed): if every film id that the picks and raw picks reference was
\* in the catalog before a run of the corrector, every film id they reference
\* is in the catalog after it.
C8_ReferencedIdsStayInCatalog ==
    AfterCorrector =>
        (({before.picks[i].film_id : i \in DOMAIN before.picks}
            \cup {before.picks_raw[i].film_id : i \in DOMAIN before.picks_raw}) \subseteq CatalogIds(before.catalog)
         => ({picks[i].film_id : i \in DOMAIN picks}
               \cup {picks_raw[i].film_id : i \in DOMAIN picks_raw}) \subseteq CatalogIds(catalog))

(***************************************************************************)
(* group_box_sets.py and fix_box_sets.py: configuration.  Titles are kept  *)
(* in ASCII; a right single quotation mark (U+2019) is written as a        *)
(* caret.  KNOWN_BOX_SETS holds each title as build_known_box_set_map   *)
(* keys it, in lower case.                                                 *)
(***************************************************************************)
KNOWN_BOX_SETS == <<
    <<"Ingmar Bergman's Cinema", {
        "crisis", "a ship to india", "port of call", "thirst", "to joy",
        "summer interlude", "waiting women", "summer with monika",
        "sawdust and tinsel", "a lesson in love", "dreams", "smiles of a summer night",
        "the seventh seal", "wild strawberries", "brink of life", "the magician",
        "the virgin spring", "the devil's eye", "through a glass darkly",
        "winter light", "the silence", "all these women", "persona",
        "hour of the wolf", "shame", "the rite", "the passion of anna",
        "faro document 1979", "the touch", "cries and whispers",
        "scenes from a marriage", "the magic flute", "the serpent's egg",
        "autumn sonata", "faro document", "from the life of the marionettes",
        "fanny and alexander", "after the rehearsal", "saraband" }>>,
    <<"Essential Fellini", {
        "variety lights", "the white sheik", "i vitelloni", "la strada", "il bidone",
        "the swindle", "nights of cabiria", "la dolce vita", "8 1/2",
        "juliet of the spirits", "fellini satyricon", "satyricon", "the clowns",
        "roma", "amarcord", "and the ship sails on", "intervista" }>>,
    <<"John Cassavetes: Five Films", {
        "shadows", "faces", "a woman under the influence",
        "the killing of a chinese bookie", "opening night" }>>,
    <<"Godzilla: The Showa-Era Films, 1954-1975", {
        "godzilla", "godzilla raids again", "king kong vs. godzilla",
        "mothra vs. godzilla", "ghidorah, the three-headed monster",
        "invasion of astro-monster", "ebirah, horror of the deep", "son of godzilla",
        "destroy all monsters", "all monsters attack", "godzilla vs. hedorah",
        "godzilla vs. gigan", "godzilla vs. megalon", "godzilla vs. mechagodzilla",
        "terror of mechagodzilla" }>> >>

MANUAL_NAME_MAP == <<
    <<"Five Films by Cassavetes", "John Cassavetes: Five Films">>,
    <<"Jacques Demy box", "The Essential Jacques Demy">>,
    <<"Apu Trilogy", "The Apu Trilogy">>,
    <<"Jacques Tati box", "The Complete Jacques Tati">>,
    <<"Wim Wenders box", "Wim Wenders: The Road Trilogy">>,
    <<"Dietrich box", "Dietrich & von Sternberg in Hollywood">>,
    <<"Monte Hellman set", "The Shooting/Ride in the Whirlwind">>,
    <<"Melvin Van Peebles: Four Films box", "Melvin Van Peebles: Essential Films">>,
    <<"Marseille Trilogy", "The Marseille Trilogy">>,
    <<"World Cinema Project", "Martin Scorsese's World Cinema Project No. 1">>,
    <<"Three Colors", "Three Colors">>,
    <<"Fanny and Alexander Box Set", "Fanny and Alexander">>,
    <<"Ingmar Bergman^s Cinema", "Ingmar Bergman's Cinema">> >>

STALE_URL_FIXES == <<
    <<"the-brd-trilogy", "https://www.criterion.com/boxsets/138-the-brd-trilogy">> >>

(***************************************************************************)
(* Text functions, on the titles, names and URLs of the model              *)
(***************************************************************************)
\* text.replace(U+2018, "'").replace(U+2019, "'")...
normalize_smart_quotes(text) ==
    CASE text = "Ingmar Bergman^s Cinema" -> "Ingmar Bergman's Cinema"
      [] OTHER -> text

\* str.lower()
lower(text) ==
    CASE text = "Pather Panchali" -> "pather panchali"
      [] text = "Aparajito" -> "aparajito"
      [] text = "La Strada" -> "la strada"
      [] text = "Amarcord" -> "amarcord"
      [] text = "The Apu Trilogy" -> "the apu trilogy"
      [] text = "Apu Trilogy" -> "apu trilogy"
      [] text = "Essential Fellini" -> "essential fellini"
      [] text = "Weekend" -> "weekend"
      [] text = "The Weekend" -> "the weekend"
      [] text = "Paris, Texas" -> "paris, texas"
      [] text = "Paris Texas" -> "paris texas"
      [] text = "Pather Panchali (Apu Trilogy)" -> "pather panchali (apu trilogy)"
      [] text = "Solaris" -> "solaris"
      [] text = "The BRD Trilogy" -> "the brd trilogy"
      [] text = "Rashomon" -> "rashomon"
      [] text = "Roma" -> "roma"
      [] text = "Ingmar Bergman^s Cinema" -> "ingmar bergman^s cinema"
      [] text = "Ingmar Bergman's Cinema" -> "ingmar bergman's cinema"
      [] OTHER -> text

\* the words of name.lower(), split at white space
words(name) ==
    CASE name = "The Apu Trilogy" -> <<"the", "apu", "trilogy">>
      [] name = "Apu Trilogy" -> <<"apu", "trilogy">>
      [] name = "Essential Fellini" -> <<"essential", "fellini">>
      [] name = "Ingmar Bergman's Cinema" -> <<"ingmar", "bergman's", "cinema">>
      [] name = "Ingmar Bergman^s Cinema" -> <<"ingmar", "bergman^s", "cinema">>
      [] name = "John Cassavetes: Five Films" -> <<"john", "cassavetes:", "five", "films">>
      [] OTHER -> <<>>

\* "/boxsets/" in url
is_boxsets_url(url) ==
    url \in { "https://www.criterion.com/boxsets/1145-the-apu-trilogy",
              "https://www.criterion.com/boxsets/3993-essential-fellini",
              "https://www.criterion.com/boxsets/138-the-brd-trilogy" }

\* re.search(r"\(([^)]+)\)$", title): <<base title, parenthetical>> or <<>>
parenthetical(title) ==
    CASE title = "Pather Panchali (Apu Trilogy)" -> <<"Pather Panchali", "Apu Trilogy">>
      [] title = "Aparajito (Apu Trilogy)" -> <<"Aparajito", "Apu Trilogy">>
      [] OTHER -> <<>>

\* name.split("/"), the non-empty parts
slash_parts(name) ==
    CASE name = "The Shooting/Ride in the Whirlwind" -> <<"The Shooting", "Ride in the Whirlwind">>
      [] OTHER -> <<name>>

\* int(token) for a token of digits, as <<n>>; <<>> for any other token
digits(token) ==
    CASE token = "0" -> <<0>> [] token = "2" -> <<2>> [] token = "3" -> <<3>>
      [] token = "4" -> <<4>> [] token = "5" -> <<5>> [] OTHER -> <<>>

word_to_num == <<
    <<"two", 2>>, <<"three", 3>>, <<"four", 4>>, <<"five", 5>>, <<"six", 6>>,
    <<"seven", 7>>, <<"eight", 8>>, <<"nine", 9>>, <<"ten", 10>> >>

\* the least element of a non-empty set of integers
Least(S) == CHOOSE x \in S : \A y \in S : x <= y

(***************************************************************************)
(* group_box_sets.py.  An optional integer is <<>> (None) or <<n>>.         *)
(***************************************************************************)
\* a box_set_film_count that Python takes as true: set and not 0
CountTruthy(count) == count # <<>> /\ count[1] # 0

\* count or 0
CountOrZero(count) == IF count = <<>> THEN 0 ELSE count[1]

infer_film_count_from_name(name) ==
    LET w == words(name)
        followed == {i \in 1..(Len(w) - 1) : w[i + 1] \in {"film", "films"}}
        numbered == {i \in followed : digits(w[i]) # <<>>}
        worded == {k \in DOMAIN word_to_num : \E i \in followed : w[i] = word_to_num[k][1]}
        starts == {k \in DOMAIN word_to_num : Len(w) > 1 /\ w[1] = word_to_num[k][1]}
        parts == slash_parts(name)
    IN IF numbered # {} THEN digits(w[Least(numbered)])
       ELSE IF worded # {} THEN <<word_to_num[Least(worded)][2]>>
       ELSE IF \E i \in DOMAIN w : w[i] = "trilogy" THEN <<3>>
       ELSE IF \E i \in 1..(Len(w) - 1) : w[i] = "double" /\ w[i + 1] = "feature" THEN <<2>>
       ELSE IF starts # {} THEN <<word_to_num[Least(starts)][2]>>
       ELSE IF Len(w) > 1 /\ digits(w[1]) # <<>> THEN digits(w[1])
       ELSE IF Len(parts) > 1 /\ (\A i \in DOMAIN w : w[i] # "eclipse") /\ Len(parts) \in 2..3
            THEN <<Len(parts)>>
       ELSE <<>>

\* dict lookups on a sequence of <<key, value>>: the first, or the last, entry
\* of the key; None when there is none
GetFirst(table, key) ==
    LET hits == {i \in DOMAIN table : table[i][1] = key}
    IN IF hits = {} THEN None ELSE table[Least(hits)][2]

GetLast(table, key) ==
    LET hits == {i \in DOMAIN table : table[i][1] = key}
    IN IF hits = {} THEN None ELSE table[CHOOSE i \in hits : \A j \in hits : j <= i][2]

\* box set name -> criterion URL, one <<name, url>> per qualifying raw pick;
\* the dict keeps the first URL of a name (read it with GetFirst)
build_url_map(raw) ==
    LET keep == {i \in DOMAIN raw :
                    is_boxsets_url(raw[i].criterion_film_url) /\ Truthy(raw[i].film_title)}
        pairs == [i \in DOMAIN raw |->
                    <<normalize_smart_quotes(raw[i].film_title), raw[i].criterion_film_url>>]
    IN SelectIdx(pairs, keep, 1)

box_keywords == {"trilogy", "box", "set", "double feature", "cinema project", "films"}

\* extract_box_set_name: the parenthetical of a catalog title when it holds a
\* box keyword
extract_box_set_name(catalog_title) ==
    LET m == parenthetical(catalog_title)
    IN IF m # <<>> /\ (\E i \in DOMAIN words(m[2]) : words(m[2])[i] \in box_keywords)
       THEN normalize_smart_quotes(m[2])
       ELSE None

\* film_id -> box set name, one <<film_id, name>> per annotated entry; the
\* dict keeps the last name of a film_id (read it with GetLast)
build_catalog_box_set_map(cat) ==
    LET keep == {i \in DOMAIN cat :
                    Truthy(extract_box_set_name(cat[i].title)) /\ Truthy(cat[i].film_id)}
        pairs == [i \in DOMAIN cat |-> <<cat[i].film_id, extract_box_set_name(cat[i].title)>>]
    IN SelectIdx(pairs, keep, 1)

\* build_known_box_set_map()[title]: the last known box set that lists the
\* lower-case title, None when none does
known_title_map(title) ==
    LET hits == {k \in DOMAIN KNOWN_BOX_SETS : title \in KNOWN_BOX_SETS[k][2]}
    IN IF hits = {} THEN None
       ELSE KNOWN_BOX_SETS[CHOOSE k \in hits : \A j \in hits : j <= k][1]

detect_box_set_for_pick(pick, catalog_map) ==
    IF pick.is_box_set /\ Truthy(pick.box_set_name) THEN normalize_smart_quotes(pick.box_set_name)
    ELSE IF HasKey(catalog_map, pick.film_id) THEN GetLast(catalog_map, pick.film_id)
    ELSE known_title_map(lower(pick.film_title))

\* catalog_by_id.get(film_id): the last catalog entry of the id, as <<entry>>
catalog_by_id(cat, film_id) ==
    LET hits == {i \in DOMAIN cat : cat[i].film_id = film_id}
    IN IF hits = {} THEN <<>> ELSE <<cat[CHOOSE i \in hits : \A j \in hits : j <= i]>>

\* A unit pick whose count is inferred again whatever count it carries.
UnitPickRecounted(pick, box_set_name, url_map, cat) ==
    LET inferred == infer_film_count_from_name(box_set_name)
    IN [ pick EXCEPT
           !.is_box_set = TRUE,
           !.box_set_name = box_set_name,
           !.box_set_film_count = IF CountTruthy(inferred) THEN inferred ELSE <<-1>> ]

\* group_picks_for_guest, first loop, a unit pick: the guest picked the set
UnitPick(pick, box_set_name, url_map, cat) ==
    LET inferred == infer_film_count_from_name(box_set_name)
        entry == catalog_by_id(cat, pick.film_id)
        url == IF Truthy(GetFirst(url_map, box_set_name)) THEN GetFirst(url_map, box_set_name)
               ELSE IF entry # <<>> /\ is_boxsets_url(entry[1].criterion_url) THEN entry[1].criterion_url
               ELSE None
    IN [ pick EXCEPT
           !.is_box_set = TRUE,
           !.box_set_name = box_set_name,
           !.box_set_film_count =
               IF CountTruthy(@) THEN @ ELSE IF CountTruthy(inferred) THEN inferred ELSE <<-1>>,
           !.box_set_criterion_url = IF ~Truthy(@) /\ Truthy(url) THEN url ELSE @ ]

\* box_set_groups[name].append(pick) on the groups kept in insertion order
AppendToGroup(groups, name, pick) ==
    IF HasKey(groups, name)
    THEN [k \in DOMAIN groups |->
            IF groups[k][1] = name THEN <<name, Append(groups[k][2], pick)>> ELSE groups[k]]
    ELSE Append(groups, <<name, <<pick>> >>)

\* A test that takes every quote for an empty one.
BlankAlways(quote) == TRUE

\* str.strip() of a quote is empty
Blank(quote) == quote \in {"", " "}

\* group_picks_for_guest, first loop: one pick
ClassifyPick(acc, pick, catalog_map, url_map, cat) ==
    LET box_set_name == detect_box_set_for_pick(pick, catalog_map)
        ft == normalize_smart_quotes(pick.film_title)
        has_quote == ~Blank(pick.quote)
        has_confidence == pick.extraction_confidence \in {"high", "medium"}
    IN IF Truthy(box_set_name) /\ ft = box_set_name
       THEN [acc EXCEPT !.standalone = Append(@, UnitPick(pick, box_set_name, url_map, cat))]
       ELSE IF Truthy(box_set_name) /\ ~(has_quote /\ has_confidence)
       THEN [acc EXCEPT !.groups = AppendToGroup(@, box_set_name, pick)]
       ELSE IF Truthy(box_set_name)
       THEN [acc EXCEPT !.standalone =
                Append(@, [pick EXCEPT !.is_box_set = TRUE, !.box_set_name = box_set_name])]
       ELSE [acc EXCEPT !.standalone = Append(@, pick)]

RECURSIVE ClassifyPicks(_, _, _, _, _, _)
ClassifyPicks(acc, guest_picks, i, catalog_map, url_map, cat) ==
    IF i > Len(guest_picks) THEN acc
    ELSE LET next == ClassifyPick(acc, guest_picks[i], catalog_map, url_map, cat)
         IN IF Len(next.standalone) >= 0
            THEN ClassifyPicks(next, guest_picks, i + 1, catalog_map, url_map, cat)
            ELSE acc

\* An aggregate that keeps the box set tag of its first grouped pick.
TemplateUntagged(box_set_name, grouped_picks, url_map) ==
    [ grouped_picks[1] EXCEPT
        !.is_box_set = TRUE,
        !.box_set_film_count = <<Len(grouped_picks)>>,
        !.box_set_film_titles = [i \in DOMAIN grouped_picks |-> grouped_picks[i].film_title],
        !.film_title = box_set_name,
        !.quote = "",
        !.extraction_confidence = "none",
        !.youtube_timestamp_url = "" ]

\* the aggregate entry that stands for the grouped picks of one box set
Template(box_set_name, grouped_picks, url_map) ==
    [ grouped_picks[1] EXCEPT
        !.is_box_set = TRUE,
        !.box_set_name = box_set_name,
        !.box_set_film_count = <<Len(grouped_picks)>>,
        !.box_set_film_titles = [i \in DOMAIN grouped_picks |-> grouped_picks[i].film_title],
        !.film_title = box_set_name,
        !.quote = "",
        !.extraction_confidence = "none",
        !.youtube_timestamp_url = "",
        !.box_set_criterion_url =
            IF Truthy(GetFirst(url_map, box_set_name)) THEN GetFirst(url_map, box_set_name) ELSE @ ]

\* group_picks_for_guest, second loop: aggregate the groups of two or more
RECURSIVE CollapseGroups(_, _, _, _)
CollapseGroups(standalone, groups, k, url_map) ==
    IF k > Len(groups) THEN standalone
    ELSE LET next == IF Len(groups[k][2]) < 2 THEN standalone \o groups[k][2]
                     ELSE Append(standalone, Template(groups[k][1], groups[k][2], url_map))
         IN IF Len(next) >= 0 THEN CollapseGroups(next, groups, k + 1, url_map) ELSE standalone

\* A merge that leaves the first aggregate as it is.
MergeKeepsExisting(existing, pick) == existing

\* group_picks_for_guest, third loop: merge pick into the existing aggregate
MergeAggregate(existing, pick) ==
    LET takes_quote == ~Truthy(existing.quote) /\ Truthy(pick.quote)
    IN [ existing EXCEPT
           !.quote = IF takes_quote THEN pick.quote ELSE @,
           !.start_timestamp = IF takes_quote THEN pick.start_timestamp ELSE @,
           !.extraction_confidence = IF takes_quote THEN pick.extraction_confidence ELSE @,
           !.youtube_timestamp_url =
               IF takes_quote /\ Truthy(pick.youtube_timestamp_url) THEN pick.youtube_timestamp_url ELSE @,
           !.vimeo_timestamp_url =
               IF takes_quote /\ Truthy(pick.vimeo_timestamp_url) THEN pick.vimeo_timestamp_url ELSE @,
           !.box_set_film_count =
               IF CountOrZero(pick.box_set_film_count) > CountOrZero(@) THEN pick.box_set_film_count ELSE @,
           !.box_set_film_titles =
               IF pick.box_set_film_titles # <<>> /\ @ = <<>> THEN pick.box_set_film_titles ELSE @,
           !.box_set_criterion_url =
               IF ~Truthy(@) /\ Truthy(pick.box_set_criterion_url) THEN pick.box_set_criterion_url ELSE @ ]

\* seen_box_sets.get(name): the index in merged of the first aggregate of the name
SeenBoxSet(merged, name) ==
    LET hits == {i \in DOMAIN merged :
                    merged[i].box_set_name = name /\ CountTruthy(merged[i].box_set_film_count)}
    IN IF hits = {} THEN 0 ELSE Least(hits)

RECURSIVE MergeDuplicates(_, _, _)
MergeDuplicates(merged, standalone, i) ==
    IF i > Len(standalone) THEN merged
    ELSE LET pick == standalone[i]
             at == SeenBoxSet(merged, pick.box_set_name)
             next == IF Truthy(pick.box_set_name) /\ CountTruthy(pick.box_set_film_count) /\ at # 0
                     THEN [merged EXCEPT ![at] = MergeAggregate(@, pick)]
                     ELSE Append(merged, pick)
         IN IF Len(next) >= 0 THEN MergeDuplicates(next, standalone, i + 1) ELSE merged

group_picks_for_guest(guest_picks, catalog_map, url_map, cat) ==
    LET classified == ClassifyPicks([standalone |-> <<>>, groups |-> <<>>], guest_picks, 1,
                                    catalog_map, url_map, cat)
        standalone_picks == CollapseGroups(classified.standalone, classified.groups, 1, url_map)
    IN MergeDuplicates(<<>>, standalone_picks, 1)

\* the distinct guest slugs of ps in order of first appearance
GuestOrder(ps) ==
    SelectIdx([i \in DOMAIN ps |-> ps[i].guest_slug],
              {i \in DOMAIN ps : \A j \in 1..(i - 1) : ps[j].guest_slug # ps[i].guest_slug}, 1)

PicksOfGuest(ps, slug) == SelectIdx(ps, {i \in DOMAIN ps : ps[i].guest_slug = slug}, 1)

\* group_box_sets.main(), the loop over the guests: all_grouped
RECURSIVE GroupGuests(_, _, _, _, _, _)
GroupGuests(all_grouped, order, k, ps, cat, raw) ==
    IF k > Len(order) THEN all_grouped
    ELSE LET grouped == group_picks_for_guest(PicksOfGuest(ps, order[k]),
                                              build_catalog_box_set_map(cat), build_url_map(raw), cat)
         IN IF Len(grouped) >= 0
            THEN GroupGuests(all_grouped \o grouped, order, k + 1, ps, cat, raw)
            ELSE all_grouped

group_box_sets(cat, ps, raw) == GroupGuests(<<>>, GuestOrder(ps), 1, ps, cat, raw)

(***************************************************************************)
(* fix_box_sets.py                                                         *)
(***************************************************************************)
\* the raw picks that name a box set page, in order
BoxSetRaw(raw) ==
    SelectIdx(raw, {i \in DOMAIN raw : is_boxsets_url(raw[i].criterion_film_url)}, 1)

\* variant name -> canonical name: the manual map, then every title of a box
\* set page that holds smart quotes (read it with GetLast)
build_canonical_name_map(raw) ==
    LET pages == BoxSetRaw(raw)
        first == {i \in DOMAIN pages :
                    /\ Truthy(pages[i].film_title)
                    /\ \A j \in 1..(i - 1) :
                          ~(Truthy(pages[j].film_title)
                              /\ pages[j].criterion_film_url = pages[i].criterion_film_url)}
        smart == {i \in first : normalize_smart_quotes(pages[i].film_title) # pages[i].film_title}
    IN MANUAL_NAME_MAP
          \o SelectIdx([i \in DOMAIN pages |->
                          <<pages[i].film_title, normalize_smart_quotes(pages[i].film_title)>>],
                       smart, 1)

\* film_id -> URL of its box set page (read it with GetFirst)
build_film_id_to_url(raw) ==
    LET pages == BoxSetRaw(raw)
    IN SelectIdx([i \in DOMAIN pages |-> <<pages[i].film_id, pages[i].criterion_film_url>>],
                 {i \in DOMAIN pages : Truthy(pages[i].film_id)}, 1)

\* canonical_url_map.get(name): the URL of the name, or of its canonical name
canonical_url_map(name, name_map, url_map) ==
    IF HasKey(name_map, name) /\ HasKey(url_map, GetLast(name_map, name))
    THEN GetFirst(url_map, GetLast(name_map, name))
    ELSE GetFirst(url_map, name)

Canonical(name, name_map) ==
    IF HasKey(name_map, name) THEN GetLast(name_map, name) ELSE name

\* step 1: name canonicalization of one pick
CanonicalizeNames(pick, name_map) ==
    LET quoted == [ pick EXCEPT
                      !.box_set_name = IF Truthy(@) THEN normalize_smart_quotes(@) ELSE @,
                      !.film_title = IF Truthy(@) THEN normalize_smart_quotes(@) ELSE @ ]
        bsn == quoted.box_set_name
        named == IF Truthy(bsn) /\ HasKey(name_map, bsn)
                 THEN [ quoted EXCEPT
                          !.film_title = IF @ = bsn THEN GetLast(name_map, bsn) ELSE @,
                          !.box_set_name = GetLast(name_map, bsn) ]
                 ELSE quoted
        ft == named.film_title
    IN IF Truthy(ft) /\ HasKey(name_map, ft) /\ ft # named.box_set_name
       THEN [named EXCEPT !.film_title = GetLast(name_map, ft)]
       ELSE named

\* step 2: mark one catalog entry; entry i is catalog_by_id[film_id] when it
\* is the last entry of its film_id
MarkBoxSet(cat, i, id_to_url) ==
    LET by_url == [cat[i] EXCEPT !.is_box_set = IF is_boxsets_url(cat[i].criterion_url) THEN TRUE ELSE @]
        is_last == \A j \in DOMAIN cat : cat[j].film_id = cat[i].film_id => j <= i
    IN IF is_last /\ HasKey(id_to_url, by_url.film_id) /\ ~by_url.is_box_set
       THEN [ by_url EXCEPT
                !.is_box_set = TRUE,
                !.criterion_url = IF Truthy(@) THEN @ ELSE GetFirst(id_to_url, by_url.film_id) ]
       ELSE by_url

\* step 3: the stale URL of one catalog entry
FixStaleUrl(cat, i, id_to_url) ==
    LET entry == cat[i]
        is_last == \A j \in DOMAIN cat : cat[j].film_id = entry.film_id => j <= i
        raw_url == GetFirst(id_to_url, entry.film_id)
    IN IF HasKey(STALE_URL_FIXES, entry.film_id)
       THEN IF is_last THEN [entry EXCEPT !.criterion_url = Get(STALE_URL_FIXES, entry.film_id)] ELSE entry
       ELSE IF HasKey(id_to_url, entry.film_id) /\ Truthy(entry.criterion_url)
               /\ entry.criterion_url # raw_url /\ is_boxsets_url(raw_url)
       THEN [entry EXCEPT !.criterion_url = raw_url]
       ELSE entry

\* step 3, in the picks: a pick of a film whose catalog URL was stale
FixStalePickUrl(pick, marked) ==
    LET entry == catalog_by_id(marked, pick.film_id)
    IN IF HasKey(STALE_URL_FIXES, pick.film_id) /\ entry # <<>>
          /\ entry[1].criterion_url # Get(STALE_URL_FIXES, pick.film_id)
       THEN [pick EXCEPT !.criterion_film_url = Get(STALE_URL_FIXES, pick.film_id)]
       ELSE pick

\* step 4: propagate box_set_criterion_url to one pick
PropagateUrl(pick, name_map, url_map, id_to_url, cat) ==
    LET by_name == canonical_url_map(pick.box_set_name, name_map, url_map)
        by_id == IF Truthy(pick.film_id) THEN GetFirst(id_to_url, pick.film_id) ELSE None
        entry == catalog_by_id(cat, pick.film_id)
        url == IF Truthy(by_name) THEN by_name
               ELSE IF Truthy(by_id) THEN by_id
               ELSE IF Truthy(pick.film_id) /\ entry # <<>> /\ is_boxsets_url(entry[1].criterion_url)
                    THEN entry[1].criterion_url
               ELSE None
    IN IF pick.is_box_set /\ ~Truthy(pick.box_set_criterion_url) /\ Truthy(url)
       THEN [pick EXCEPT !.box_set_criterion_url = url]
       ELSE pick

\* sorted(): the strings of S in Python's order
SortOrder == <<
    "Amarcord", "Aparajito", "La Strada", "Pather Panchali",
    "amarcord", "aparajito-apu-trilogy", "la-strada", "pather-panchali-apu-trilogy" >>

sorted(S) == SelectIdx(SortOrder, {i \in DOMAIN SortOrder : SortOrder[i] \in S}, 1)

\* step 5: box_set_film_counts[bsn] and box_set_film_titles[bsn], from the raw
\* picks that name the box set and the catalog titles annotated with it
box_set_film_counts(bsn, raw, cat, name_map) ==
    {IF Truthy(raw[i].film_id) THEN raw[i].film_id ELSE raw[i].film_title :
        i \in {i \in DOMAIN raw :
                 /\ Truthy(raw[i].box_set_name)
                 /\ Canonical(normalize_smart_quotes(raw[i].box_set_name), name_map) = bsn
                 /\ raw[i].film_title # bsn}}
    \cup {cat[i].film_id :
        i \in {i \in DOMAIN cat :
                 /\ parenthetical(cat[i].title) # <<>>
                 /\ Canonical(normalize_smart_quotes(parenthetical(cat[i].title)[2]), name_map) = bsn}}

box_set_film_titles(bsn, raw, cat, name_map) ==
    {raw[i].film_title :
        i \in {i \in DOMAIN raw :
                 /\ Truthy(raw[i].box_set_name)
                 /\ Canonical(normalize_smart_quotes(raw[i].box_set_name), name_map) = bsn
                 /\ raw[i].film_title # bsn}}
    \cup {parenthetical(cat[i].title)[1] :
        i \in {i \in DOMAIN cat :
                 /\ parenthetical(cat[i].title) # <<>>
                 /\ Canonical(normalize_smart_quotes(parenthetical(cat[i].title)[2]), name_map) = bsn}}

\* step 5: convert one unit pick to an aggregate
ConvertUnitPick(pick, raw, cat, name_map) ==
    LET bsn == pick.box_set_name
        film_ids == box_set_film_counts(bsn, raw, cat, name_map)
        titles == box_set_film_titles(bsn, raw, cat, name_map)
        count == infer_film_count_from_name(bsn)
    IN IF ~(Truthy(pick.film_title) /\ Truthy(bsn) /\ pick.film_title = bsn) THEN pick
       ELSE IF CountTruthy(pick.box_set_film_count) THEN pick
       ELSE IF film_ids # {}
       THEN [ pick EXCEPT
                !.is_box_set = TRUE,
                !.box_set_film_count = <<Cardinality(film_ids)>>,
                !.box_set_film_titles = IF titles # {} THEN sorted(titles) ELSE sorted(film_ids) ]
       ELSE [ pick EXCEPT
                !.is_box_set = TRUE,
                !.box_set_film_count = IF CountTruthy(count) THEN count ELSE <<-1>> ]

\* fix_box_sets.main() on the loaded documents: the catalog and picks it saves
fix_box_sets(cat, ps, raw) ==
    LET name_map == build_canonical_name_map(raw)
        url_map == build_url_map(raw)
        id_to_url == build_film_id_to_url(raw)
        named == [i \in DOMAIN ps |-> CanonicalizeNames(ps[i], name_map)]
        marked == [i \in DOMAIN cat |-> MarkBoxSet(cat, i, id_to_url)]
        fixed == [i \in DOMAIN marked |-> FixStaleUrl(marked, i, id_to_url)]
        repointed == [i \in DOMAIN named |-> FixStalePickUrl(named[i], marked)]
        propagated == [i \in DOMAIN repointed |->
                         PropagateUrl(repointed[i], name_map, url_map, id_to_url, fixed)]
    IN [ catalog |-> fixed,
         picks |-> [i \in DOMAIN propagated |-> ConvertUnitPick(propagated[i], raw, fixed, name_map)] ]

(***************************************************************************)
(* import_backfill.py: import_quotes() for a CSV of one row                *)
(***************************************************************************)
\* pick_index.get((guest_slug, film_slug, visit_index)): every pick of the
\* model is of visit 1; the last pick of a key wins
pick_index(ps, guest_slug, film_slug) ==
    LET hits == {i \in DOMAIN ps : ps[i].guest_slug = guest_slug /\ ps[i].film_id = film_slug}
    IN IF hits = {} THEN 0 ELSE CHOOSE i \in hits : \A j \in hits : j <= i

import_quotes(ps, guest_slug, film_slug, quote) ==
    LET idx == pick_index(ps, guest_slug, film_slug)
    IN IF Blank(quote) \/ idx = 0 THEN ps
       ELSE [ps EXCEPT ![idx] = [@ EXCEPT !.quote = quote, !.extraction_confidence = "manual"]]

(***************************************************************************)
(* The box set passes: the documents they may load, and the passes         *)
(***************************************************************************)
MaxBoxPicks == 3
MaxBoxRuns == 4

ApuTrilogyUrl == "https://www.criterion.com/boxsets/1145-the-apu-trilogy"
EssentialFelliniUrl == "https://www.criterion.com/boxsets/3993-essential-fellini"

\* a catalog entry of the spine list, with the is_box_set flag that
\* fix_box_sets.py adds (FALSE: the entry does not carry the key)
BoxCatalogEntry(spine, title) ==
    [ spine_number |-> spine, title |-> title, director |-> "", year |-> None,
      criterion_url |-> "", film_id |-> make_film_id(title, None),
      imdb_id |-> None, tmdb_id |-> None, genres |-> "[]", poster_url |-> None,
      is_box_set |-> FALSE ]

\* the entry that backfill_films.py adds for a picked box set
BoxSyntheticEntry(title, url) ==
    [ BoxCatalogEntry(None, title) EXCEPT !.criterion_url = url ]

BoxCatalog == <<
    BoxCatalogEntry("4", "Amarcord"),
    BoxCatalogEntry("219", "La Strada"),
    BoxCatalogEntry("782", "Pather Panchali (Apu Trilogy)"),
    BoxCatalogEntry("783", "Aparajito (Apu Trilogy)"),
    BoxSyntheticEntry("The Apu Trilogy", ApuTrilogyUrl),
    BoxSyntheticEntry("Essential Fellini", EssentialFelliniUrl) >>

\* the films a guest may have picked: <<title, film_id, URL, is a box set>>
BoxFilms == {
    <<"The Apu Trilogy", "the-apu-trilogy", ApuTrilogyUrl, TRUE>>,
    <<"Essential Fellini", "essential-fellini", EssentialFelliniUrl, TRUE>>,
    <<"Pather Panchali", "pather-panchali-apu-trilogy", "", FALSE>>,
    <<"Aparajito", "aparajito-apu-trilogy", "", FALSE>>,
    <<"La Strada", "la-strada", "", FALSE>>,
    <<"Amarcord", "amarcord", "", FALSE>> }

\* what quote extraction found for a pick: <<quote, confidence>>
BoxQuotes(film) ==
    { <<"", "none">>, <<"on " \o film[1], "high">> }
    \cup (IF film[1] = "Pather Panchali" THEN {<<"on " \o film[1], "low">>} ELSE {})

BoxGuests == {"barry-jenkins", "bong-joon-ho"}

\* a raw pick as scrape_criterion_picks.py writes it
BoxRawPick(slug, film) ==
    [ guest_slug |-> slug, film_title |-> film[1], film_id |-> film[2],
      criterion_film_url |-> film[3], is_box_set |-> film[4],
      box_set_name |-> IF film[4] THEN film[1] ELSE None, source |-> "criterion" ]

\* a pick as extract_quotes.py writes it: the raw pick with what it extracted
BoxPick(slug, film, found) ==
    [ guest_slug |-> slug, film_title |-> film[1], film_id |-> film[2], film_slug |-> NoKey,
      criterion_film_url |-> film[3], is_box_set |-> film[4],
      box_set_name |-> IF film[4] THEN film[1] ELSE None,
      box_set_film_count |-> <<>>, box_set_film_titles |-> <<>>, box_set_criterion_url |-> None,
      quote |-> found[1], extraction_confidence |-> found[2],
      start_timestamp |-> IF found[1] = "" THEN None ELSE "95",
      youtube_timestamp_url |-> IF found[1] = "" THEN "" ELSE YoutubeUrl("vid-" \o slug) \o "&t=95",
      vimeo_timestamp_url |-> NoKey ]

InitBoxSets ==
    /\ catalog = BoxCatalog
    /\ \E n \in 1..MaxBoxPicks :
       \E slug \in [1..n -> BoxGuests] :
       \E film \in [1..n -> BoxFilms] :
       \E found \in [1..n -> UNION {BoxQuotes(f) : f \in BoxFilms}] :
           /\ \A i \in 1..n : found[i] \in BoxQuotes(film[i])
           /\ \A i, j \in 1..n : (slug[i] = slug[j] /\ film[i] = film[j]) => i = j
           /\ \A i \in 1..n : slug[i] = "bong-joon-ho" => i = n
           /\ picks = [i \in 1..n |-> BoxPick(slug[i], film[i], found[i])]
           /\ picks_raw = [i \in 1..n |-> BoxRawPick(slug[i], film[i])]
    /\ guests = <<>>
    /\ before = [catalog |-> <<>>, picks |-> <<>>, picks_raw |-> <<>>]
    /\ last = [op |-> "none"]
    /\ runs = 0
    /\ checkpoint = <<>>
    /\ lock = <<>>
    /\ threads = NoThreads

BoxDocs == [catalog |-> catalog, picks |-> picks, picks_raw |-> picks_raw]

\* group_box_sets.main()
GroupBoxSets ==
    \E dry_run \in BOOLEAN :
        /\ runs < MaxBoxRuns
        /\ runs' = runs + 1
        /\ before' = BoxDocs
        /\ last' = [op |-> "group_box_sets", dry_run |-> dry_run,
                    rerun |-> last.op = "group_box_sets" /\ (~last.dry_run \/ last.rerun)]
        /\ picks' = IF dry_run \/ picks = <<>> THEN picks ELSE group_box_sets(catalog, picks, picks_raw)
        /\ UNCHANGED <<catalog, picks_raw, guests>>
        /\ UNCHANGED <<checkpoint, lock, threads>>

\* fix_box_sets.main()
FixBoxSets ==
    \E dry_run \in BOOLEAN :
        /\ runs < MaxBoxRuns
        /\ runs' = runs + 1
        /\ before' = BoxDocs
        /\ last' = [op |-> "fix_box_sets", dry_run |-> dry_run]
        /\ IF dry_run \/ picks = <<>>
           THEN UNCHANGED <<catalog, picks>>
           ELSE LET out == fix_box_sets(catalog, picks, picks_raw)
                IN catalog' = out.catalog /\ picks' = out.picks
        /\ UNCHANGED <<picks_raw, guests>>
        /\ UNCHANGED <<checkpoint, lock, threads>>

\* import_backfill.py quotes, with one filled row of the CSV that
\* generate_backfill_csvs.py wrote for the picks without a quote
ImportQuotes ==
    \E i \in DOMAIN picks :
        /\ ~Truthy(picks[i].quote)
        /\ runs < MaxBoxRuns
        /\ runs' = runs + 1
        /\ before' = BoxDocs
        /\ last' = [op |-> "import_quotes", dry_run |-> FALSE]
        /\ picks' = import_quotes(picks, picks[i].guest_slug, picks[i].film_id,
                                  "backfilled for " \o picks[i].film_title)
        /\ UNCHANGED <<catalog, picks_raw, guests>>
        /\ UNCHANGED <<checkpoint, lock, threads>>

NextBoxSets == GroupBoxSets \/ FixBoxSets \/ ImportQuotes

SpecBoxSets == InitBoxSets /\ [][NextBoxSets]_vars

(***************************************************************************)
(* Claims about the box set passes                                         *)
(***************************************************************************)
AfterGrouping == last.op = "group_box_sets" /\ ~last.dry_run
AfterAggregator == last.op \in {"group_box_sets", "fix_box_sets"} /\ ~last.dry_run

HasCount(pick) == pick.box_set_film_count # <<>>

\* C9: every pick that an aggregator (group_box_sets.py, fix_box_sets.py)
\* wrote with box_set_film_count set has a non-empty box_set_name, and the
\* count is not 0.
C9_CountedPicksAreNamed ==
    AfterAggregator =>
        \A i \in DOMAIN picks :
            HasCount(picks[i]) =>
                /\ Truthy(picks[i].box_set_name)
                /\ picks[i].box_set_film_count # <<0>>

\* the aggregator wrote a collapsed aggregate and a converted unit pick
C9_Witness ==
    /\ AfterAggregator
    /\ \E i \in DOMAIN picks : HasCount(picks[i]) /\ picks[i].box_set_film_titles # <<>>
    /\ \E i \in DOMAIN picks : HasCount(picks[i]) /\ picks[i].box_set_film_count[1] \in {-1, 3}

\* C10 (as claimed): a pick whose film title is its box set's own name and
\* that carries a quote is still there after group_box_sets.py, with the
\* same quote and a nonzero box_set_film_count.
C10_UnitPickKeepsQuote ==
    [][ AfterGrouping' =>
          \A i \in DOMAIN picks :
              (Truthy(picks[i].box_set_name) /\ picks[i].film_title = picks[i].box_set_name
                 /\ Truthy(picks[i].quote))
              => \E j \in DOMAIN picks' :
                     /\ picks'[j].guest_slug = picks[i].guest_slug
                     /\ picks'[j].box_set_name = picks[i].box_set_name
                     /\ picks'[j].quote = picks[i].quote
                     /\ HasCount(picks'[j])
                     /\ picks'[j].box_set_film_count # <<0>> ]_vars

\* the picks of guest slug, before the run, that group_picks_for_guest detects
\* as the unit pick of box set name, and as the films of name that it groups
UnitsBefore(slug, name) ==
    {i \in DOMAIN before.picks :
        /\ before.picks[i].guest_slug = slug
        /\ detect_box_set_for_pick(before.picks[i], build_catalog_box_set_map(before.catalog)) = name
        /\ normalize_smart_quotes(before.picks[i].film_title) = name}
GroupedBefore(slug, name) ==
    {i \in DOMAIN before.picks :
        /\ before.picks[i].guest_slug = slug
        /\ detect_box_set_for_pick(before.picks[i], build_catalog_box_set_map(before.catalog)) = name
        /\ normalize_smart_quotes(before.picks[i].film_title) # name
        /\ ~(~Blank(before.picks[i].quote)
             /\ before.picks[i].extraction_confidence \in {"high", "medium"})}
AggregatesOf(slug, name) ==
    {j \in DOMAIN picks :
        picks[j].guest_slug = slug /\ picks[j].box_set_name = name /\ HasCount(picks[j])}
BoxSetNames == {"The Apu Trilogy", "Apu Trilogy", "Essential Fellini"}

\* C11: after group_box_sets.py a guest has at most one pick with
\* box_set_film_count set per box set name; where the guest had the unit pick
\* of a box set and two or more films of it to group, the one aggregate has a
\* quote if a unit pick had one, and its count is the larger of the unit
\* pick's count and the number of grouped films.
C11_OneAggregatePerBoxSet ==
    AfterGrouping =>
        \A slug \in BoxGuests, name \in BoxSetNames :
            /\ Cardinality(AggregatesOf(slug, name)) <= 1
            /\ (UnitsBefore(slug, name) # {} /\ Cardinality(GroupedBefore(slug, name)) >= 2) =>
                 \E j \in AggregatesOf(slug, name) :
                    LET counts == {Cardinality(GroupedBefore(slug, name))} \cup
                                  {UnitPick(before.picks[u], name, <<>>, <<>>).box_set_film_count[1] :
                                      u \in UnitsBefore(slug, name)}
                    IN /\ (\E u \in UnitsBefore(slug, name) : Truthy(before.picks[u].quote))
                            => Truthy(picks[j].quote)
                       /\ picks[j].box_set_film_count[1] \in counts
                       /\ \A c \in counts : c <= picks[j].box_set_film_count[1]

\* a guest's quoted unit pick of unknown count was merged with two grouped films
C11_Witness ==
    /\ AfterGrouping
    /\ \E slug \in BoxGuests, name \in BoxSetNames :
          /\ Cardinality(GroupedBefore(slug, name)) >= 2
          /\ \E u \in UnitsBefore(slug, name) :
                Truthy(before.picks[u].quote) /\ ~HasCount(before.picks[u])
          /\ \E j \in AggregatesOf(slug, name) :
                picks[j].box_set_film_count = <<2>> /\ Truthy(picks[j].quote)

\* a film of a box set (not the box set itself) with a quote of confidence
\* high or medium
AttestedFilm(pick, cat) ==
    LET name == detect_box_set_for_pick(pick, build_catalog_box_set_map(cat))
    IN /\ Truthy(name)
       /\ normalize_smart_quotes(pick.film_title) # name
       /\ Truthy(pick.quote) /\ pick.quote # " "
       /\ pick.extraction_confidence \in {"high", "medium"}

\* C12: a film of a box set that carries a non-empty quote of confidence high
\* or medium is not absorbed by group_box_sets.py: the output has it as a
\* pick of its own, with the same quote, tagged with the box set's name.
C12_AttestedFilmStaysStandalone ==
    AfterGrouping =>
        \A i \in DOMAIN before.picks :
            AttestedFilm(before.picks[i], before.catalog) =>
                \E j \in DOMAIN picks :
                    /\ picks[j].guest_slug = before.picks[i].guest_slug
                    /\ picks[j].film_id = before.picks[i].film_id
                    /\ picks[j].film_title = before.picks[i].film_title
                    /\ picks[j].quote = before.picks[i].quote
                    /\ picks[j].extraction_confidence = before.picks[i].extraction_confidence
                    /\ picks[j].box_set_film_count = before.picks[i].box_set_film_count
                    /\ picks[j].is_box_set
                    /\ picks[j].box_set_name =
                         detect_box_set_for_pick(before.picks[i],
                                                 build_catalog_box_set_map(before.catalog))

\* a quoted film stayed standalone while two other films of its box set, or
\* the box set's unit pick, were aggregated in the same run
C12_Witness ==
    /\ AfterGrouping
    /\ \E i \in DOMAIN before.picks :
          /\ AttestedFilm(before.picks[i], before.catalog)
          /\ ~before.picks[i].is_box_set
          /\ \E j \in DOMAIN picks :
                /\ picks[j].guest_slug = before.picks[i].guest_slug
                /\ HasCount(picks[j])
                /\ picks[j].film_id # before.picks[i].film_id

(***************************************************************************)
(* The catalog matchers: utils.py, scrape_letterboxd.py and                *)
(* scrape_criterion_picks.py.  A year is JSON null or a number, kept as    *)
(* its digits; year_num is its value.                                      *)
(***************************************************************************)
year_num(year) ==
    CASE year = "1955" -> 1955 [] year = "1967" -> 1967 [] year = "1968" -> 1968
      [] year = "1972" -> 1972 [] year = "1984" -> 1984 [] year = "2011" -> 2011
      [] OTHER -> 0

\* what fuzz.token_sort_ratio compares: the text in lower case, every
\* character that is not a letter or digit turned into a space, the words
\* sorted and joined by one space
token_sort_key(text) ==
    CASE text \in {"Weekend", "weekend", "weekend "} -> "weekend"
      [] text = "The Weekend" -> "the weekend"
      [] text \in {"Paris, Texas", "Paris Texas"} -> "paris texas"
      [] text = "Pather Panchali" -> "panchali pather"
      [] text = "Pather Panchali (Apu Trilogy)" -> "apu panchali pather trilogy"
      [] text = "Solaris" -> "solaris"
      [] text = "The BRD Trilogy" -> "brd the trilogy"
      [] text = "Rashomon" -> "rashomon"
      [] text = "cate blanchett and todd field" -> "and blanchett cate field todd"
      [] text = "barry jenkins" -> "barry jenkins"
      [] text = "cate blanchett" -> "blanchett cate"
      [] text = "todd field" -> "field todd"
      [] OTHER -> ""

\* utils.fuzzy_match_score: round(100 * 2 * LCS / (len1 + len2)) of the keys
fuzzy_match_score(text1, text2) ==
    LET pair == {token_sort_key(text1), token_sort_key(text2)}
    IN IF text1 = "" \/ text2 = "" THEN 0
       ELSE IF Cardinality(pair) = 1 THEN 100
       ELSE CASE pair = {"apu panchali pather trilogy", "brd the trilogy"} -> 57
              [] pair = {"apu panchali pather trilogy", "panchali pather"} -> 71
              [] pair = {"apu panchali pather trilogy", "paris texas"} -> 32
              [] pair = {"apu panchali pather trilogy", "rashomon"} -> 17
              [] pair = {"apu panchali pather trilogy", "solaris"} -> 24
              [] pair = {"apu panchali pather trilogy", "the weekend"} -> 21
              [] pair = {"apu panchali pather trilogy", "weekend"} -> 6
              [] pair = {"brd the trilogy", "panchali pather"} -> 33
              [] pair = {"brd the trilogy", "paris texas"} -> 31
              [] pair = {"brd the trilogy", "rashomon"} -> 26
              [] pair = {"brd the trilogy", "solaris"} -> 18
              [] pair = {"brd the trilogy", "the weekend"} -> 31
              [] pair = {"brd the trilogy", "weekend"} -> 9
              [] pair = {"panchali pather", "paris texas"} -> 46
              [] pair = {"panchali pather", "rashomon"} -> 17
              [] pair = {"panchali pather", "solaris"} -> 27
              [] pair = {"panchali pather", "the weekend"} -> 23
              [] pair = {"panchali pather", "weekend"} -> 9
              [] pair = {"paris texas", "rashomon"} -> 32
              [] pair = {"paris texas", "solaris"} -> 44
              [] pair = {"paris texas", "the weekend"} -> 18
              [] pair = {"paris texas", "weekend"} -> 11
              [] pair = {"rashomon", "solaris"} -> 27
              [] pair = {"rashomon", "the weekend"} -> 21
              [] pair = {"rashomon", "weekend"} -> 13
              [] pair = {"the weekend", "weekend"} -> 78
              [] pair = {"and blanchett cate field todd", "barry jenkins"} -> 24
              [] pair = {"and blanchett cate field todd", "blanchett cate"} -> 65
              [] pair = {"and blanchett cate field todd", "field todd"} -> 51
              [] pair = {"barry jenkins", "blanchett cate"} -> 30
              [] pair = {"barry jenkins", "field todd"} -> 9
              [] pair = {"blanchett cate", "field todd"} -> 25
              [] OTHER -> 0

\* a year check that lets every pair of years pass
years_always_agree(year, cat_year) == TRUE

\* not (year and cat_year and abs(year - cat_year) > 1)
years_agree(year, cat_year) ==
    ~(Truthy(year) /\ Truthy(cat_year)
      /\ (year_num(year) - year_num(cat_year) > 1 \/ year_num(cat_year) - year_num(year) > 1))

fuzzy_match_title(title1, title2, year1, year2, threshold) ==
    /\ title1 # "" /\ title2 # ""
    /\ fuzzy_match_score(title1, title2) >= threshold
    /\ years_agree(year1, year2)

strip_catalog_annotations(title) ==
    IF title = "Pather Panchali (Apu Trilogy)" THEN "Pather Panchali" ELSE title

\* the fields a matcher writes on a film.  match_method "fuzzy" with
\* match_score n stands for the string fuzzy_n.
Matched(film, entry, method, score) ==
    [ film EXCEPT !.catalog_spine = entry.spine_number, !.catalog_title = entry.title,
                  !.match_method = method, !.match_score = score, !.film_id = entry.film_id ]

\* scrape_letterboxd.match_films_to_catalog, the body of its loop over films
letterboxd_match_film(film, cat) ==
    LET title == film.title
        year == film.year
        cleaned(i) == strip_catalog_annotations(cat[i].title)
        exact_hits == {i \in DOMAIN cat :
                          /\ \/ lower(cat[i].title) = lower(title)
                             \/ lower(cleaned(i)) = lower(title)
                          /\ years_agree(year, cat[i].year)}
        start == [film EXCEPT !.catalog_spine = None, !.catalog_title = None,
                              !.match_method = None, !.match_score = 0]
        exact == IF exact_hits = {} THEN start
                 ELSE Matched(start, cat[Least(exact_hits)], "exact", 0)
        score(i) == IF fuzzy_match_score(title, cat[i].title) >= fuzzy_match_score(title, cleaned(i))
                    THEN fuzzy_match_score(title, cat[i].title)
                    ELSE fuzzy_match_score(title, cleaned(i))
        candidates == {i \in DOMAIN cat : score(i) >= 75 /\ years_agree(year, cat[i].year)}
        best == {i \in candidates : \A j \in candidates : score(j) <= score(i)}
    IN IF Truthy(exact.catalog_spine) THEN exact
       ELSE IF best # {} THEN Matched(exact, cat[Least(best)], "fuzzy", score(Least(best)))
       ELSE [exact EXCEPT !.film_id = make_film_id(title, year)]

\* re.search(r"/films/(\d+)", url): the number, "" when there is no match
films_url_id(url) ==
    CASE url = "https://www.criterion.com/films/28441-weekend" -> "28441"
      [] url = "https://www.criterion.com/films/27783-weekend" -> "27783"
      [] url = "https://www.criterion.com/films/138-rashomon" -> "138"
      [] OTHER -> ""

\* scrape_criterion_picks.match_films_to_catalog, the body of its loop over films
criterion_match_film(film, cat) ==
    LET title == film.title
        crit_id == film.criterion_film_id
        slug_lookup == {i \in DOMAIN cat :
                           /\ Truthy(cat[i].criterion_url)
                           /\ films_url_id(cat[i].criterion_url) # ""
                           /\ films_url_id(cat[i].criterion_url) = crit_id}
        by_url == CHOOSE i \in slug_lookup : \A j \in slug_lookup : j <= i
        exact_hits == {i \in DOMAIN cat : lower(cat[i].title) = lower(title)}
        start == [film EXCEPT !.catalog_spine = None, !.catalog_title = None,
                              !.match_method = None, !.match_score = 0, !.film_id = None]
        score(i) == fuzzy_match_score(title, cat[i].title)
        candidates == {i \in DOMAIN cat : score(i) >= 75}
        best == {i \in candidates : \A j \in candidates : score(j) <= score(i)}
    IN IF crit_id # "" /\ slug_lookup # {} THEN Matched(start, cat[by_url], "criterion_url", 0)
       ELSE IF exact_hits # {} THEN Matched(start, cat[Least(exact_hits)], "exact", 0)
       ELSE IF best # {} THEN Matched(start, cat[Least(best)], "fuzzy", score(Least(best)))
       ELSE [start EXCEPT !.film_id = make_film_id(title, None)]

(***************************************************************************)
(* The matchers as a state machine: a catalog, and the films of one        *)
(* scraped list matched against it.                                        *)
(***************************************************************************)
MaxMatchCatalog == 3
MaxMatchRuns == 2

MatchEntry(spine, title, year, url, film_id) ==
    [ ScrapedEntry(spine, title) EXCEPT !.year = year, !.criterion_url = url, !.film_id = film_id ]

\* catalog entries: of the spine list (enriched and corrected, or as first
\* scraped), and one that backfill_films.py added for an unmatched pick
MatchEntries == {
    MatchEntry("622", "Weekend", "1967", "https://www.criterion.com/films/28441-weekend", "weekend-1967"),
    MatchEntry("635", "Weekend", "2011", "https://www.criterion.com/films/27783-weekend", "weekend-2011"),
    MatchEntry("635", "Weekend", None, "", "weekend"),
    MatchEntry("501", "Paris, Texas", "1984", "", "paris-texas"),
    MatchEntry("782", "Pather Panchali (Apu Trilogy)", "1955", "", "pather-panchali-apu-trilogy"),
    MatchEntry("138", "Rashomon", None, "https://www.criterion.com/films/138-rashomon", "rashomon"),
    MatchEntry(None, "Paris Texas", "1984", "", "paris-texas-1984") }

\* a film as scrape_list_films returns it
LetterboxdFilm(title, year) ==
    [ title |-> title, year |-> year, source |-> "letterboxd",
      criterion_film_id |-> "", criterion_film_url |-> "", is_box_set |-> FALSE,
      catalog_spine |-> NoKey, catalog_title |-> NoKey, match_method |-> NoKey,
      match_score |-> 0, film_id |-> NoKey ]

LetterboxdFilms == {
    LetterboxdFilm("Weekend", "1967"), LetterboxdFilm("Weekend", "1968"),
    LetterboxdFilm("Weekend", None), LetterboxdFilm("The Weekend", "1967"),
    LetterboxdFilm("The Weekend", "2011"), LetterboxdFilm("Paris Texas", "1984"),
    LetterboxdFilm("Pather Panchali", "1955"), LetterboxdFilm("Solaris", "1972") }

\* a film as _extract_films_from_page returns it
CriterionFilm(title, id, url, is_box_set) ==
    [ LetterboxdFilm(title, NoKey) EXCEPT !.source = "criterion", !.criterion_film_id = id,
                                          !.criterion_film_url = url, !.is_box_set = is_box_set ]

CriterionFilms == {
    CriterionFilm("Weekend", "28441", "https://www.criterion.com/films/28441-weekend", FALSE),
    CriterionFilm("Weekend", "27783", "https://www.criterion.com/films/27783-weekend", FALSE),
    CriterionFilm("The Weekend", "31001", "https://www.criterion.com/films/31001-the-weekend", FALSE),
    CriterionFilm("Pather Panchali", "28012", "https://www.criterion.com/films/28012-pather-panchali", FALSE),
    CriterionFilm("Solaris", "579", "https://www.criterion.com/films/579-solaris", FALSE),
    CriterionFilm("The BRD Trilogy", "138", "https://www.criterion.com/boxsets/138-the-brd-trilogy", TRUE) }

InitMatch ==
    /\ \E n \in 1..MaxMatchCatalog : \E cat \in [1..n -> MatchEntries] :
          /\ \A i, j \in 1..n : i # j =>
                /\ cat[i] # cat[j]
                /\ ~(Truthy(cat[i].spine_number) /\ cat[i].spine_number = cat[j].spine_number)
          /\ \A i, j \in 1..n : (i < j /\ ~Truthy(cat[i].spine_number)) => ~Truthy(cat[j].spine_number)
          /\ catalog = cat
    /\ guests = <<>> /\ picks = <<>> /\ picks_raw = <<>>
    /\ before = [catalog |-> <<>>, picks |-> <<>>, picks_raw |-> <<>>]
    /\ last = [op |-> "none"]
    /\ runs = 0
    /\ checkpoint = <<>>
    /\ lock = <<>>
    /\ threads = NoThreads

\* scrape_letterboxd.match_films_to_catalog(films, catalog)
LetterboxdMatch ==
    \E film \in LetterboxdFilms :
        /\ runs < MaxMatchRuns
        /\ runs' = runs + 1
        /\ last' = [op |-> "letterboxd_match", films |-> <<film>>,
                    matched |-> <<letterboxd_match_film(film, catalog)>>]
        /\ UNCHANGED <<catalog, guests, picks, picks_raw, before>>
        /\ UNCHANGED <<checkpoint, lock, threads>>

\* scrape_criterion_picks.match_films_to_catalog(films, catalog)
CriterionMatch ==
    \E film \in CriterionFilms :
        /\ runs < MaxMatchRuns
        /\ runs' = runs + 1
        /\ last' = [op |-> "criterion_match", films |-> <<film>>,
                    matched |-> <<criterion_match_film(film, catalog)>>]
        /\ UNCHANGED <<catalog, guests, picks, picks_raw, before>>
        /\ UNCHANGED <<checkpoint, lock, threads>>

NextMatch == LetterboxdMatch \/ CriterionMatch

SpecMatch == InitMatch /\ [][NextMatch]_vars

(***************************************************************************)
(* Claims about the matchers                                               *)
(***************************************************************************)
\* the catalog entries that a matched film names
EntriesOf(film) ==
    {i \in DOMAIN catalog :
        /\ catalog[i].spine_number = film.catalog_spine
        /\ catalog[i].title = film.catalog_title
        /\ catalog[i].film_id = film.film_id}
YearsKnown(film, entry) == Truthy(film.year) /\ Truthy(entry.year)
YearGap(film, entry) ==
    IF year_num(film.year) >= year_num(entry.year)
    THEN year_num(film.year) - year_num(entry.year)
    ELSE year_num(entry.year) - year_num(film.year)
MatchYears == {None, "1955", "1967", "1968", "1972", "1984", "2011"}

\* C13: a film that a matcher matched by exact title or by fuzzy score has a
\* year within one of its catalog entry's year when both are known; the
\* film Weekend of 1967 matched against a catalog with Weekend (1967) and
\* Weekend (2011), in either order, gets the 1967 entry; and
\* fuzzy_match_title accepts no pair of known years more than one apart.
C13_NoYearContradiction ==
    /\ last.op \in {"letterboxd_match", "criterion_match"} =>
         \A k \in DOMAIN last.matched :
            LET film == last.matched[k]
            IN /\ film.match_method \in {"exact", "fuzzy"} =>
                    \A i \in EntriesOf(film) :
                        YearsKnown(film, catalog[i]) => YearGap(film, catalog[i]) <= 1
               /\ ( /\ last.op = "letterboxd_match"
                    /\ film.title = "Weekend" /\ film.year = "1967"
                    /\ \E i, j \in DOMAIN catalog :
                          /\ catalog[i].title = "Weekend" /\ catalog[i].year = "1967"
                          /\ catalog[j].title = "Weekend" /\ catalog[j].year = "2011" )
                  => \E i \in EntriesOf(film) : catalog[i].year = "1967"
    /\ \A f \in LetterboxdFilms, i \in DOMAIN catalog, y1, y2 \in MatchYears, threshold \in {75, 85} :
          ( /\ fuzzy_match_title(f.title, catalog[i].title, y1, y2, threshold)
            /\ Truthy(y1) /\ Truthy(y2) )
          => (year_num(y1) - year_num(y2) <= 1 /\ year_num(y2) - year_num(y1) <= 1)

\* Weekend of 1967 was matched against a catalog that lists the 2011 film first
C13_Witness ==
    /\ last.op = "letterboxd_match"
    /\ last.films[1].title = "Weekend" /\ last.films[1].year = "1967"
    /\ \E i, j \in DOMAIN catalog :
          /\ i < j
          /\ catalog[i].title = "Weekend" /\ catalog[i].year = "2011"
          /\ catalog[j].title = "Weekend" /\ catalog[j].year = "1967"
    /\ last.matched[1].catalog_spine = "622"
    /\ last.matched[1].match_method = "exact"

\* C14 (as claimed): a film scraped from a /boxsets/N-... link is never
\* matched by URL to a catalog entry whose URL is of the form /films/N-...
C14_BoxSetNotMatchedToFilmUrl ==
    last.op = "criterion_match" =>
        \A k \in DOMAIN last.matched :
            (last.films[k].is_box_set /\ last.matched[k].match_method = "criterion_url")
            => \A i \in EntriesOf(last.matched[k]) : films_url_id(catalog[i].criterion_url) = ""

\* the entries that each method of a matcher can hit for a film
UrlHits(film) ==
    {i \in DOMAIN catalog :
        film.criterion_film_id # "" /\ films_url_id(catalog[i].criterion_url) = film.criterion_film_id}
ExactHits(film) ==
    {i \in DOMAIN catalog :
        /\ \/ lower(catalog[i].title) = lower(film.title)
           \/ /\ film.source = "letterboxd"
              /\ lower(strip_catalog_annotations(catalog[i].title)) = lower(film.title)
        /\ film.source = "letterboxd" => years_agree(film.year, catalog[i].year)}
FuzzyScore(film, i) ==
    IF film.source = "letterboxd"
         /\ fuzzy_match_score(film.title, strip_catalog_annotations(catalog[i].title))
              > fuzzy_match_score(film.title, catalog[i].title)
    THEN fuzzy_match_score(film.title, strip_catalog_annotations(catalog[i].title))
    ELSE fuzzy_match_score(film.title, catalog[i].title)
FuzzyHits(film) ==
    {i \in DOMAIN catalog :
        /\ FuzzyScore(film, i) >= 75
        /\ film.source = "letterboxd" => years_agree(film.year, catalog[i].year)}

\* C15 (as claimed): the first method that hits decides the match: the entry
\* whose URL number is the film's source number; otherwise the first entry of
\* the same title, ignoring case; otherwise a best fuzzy candidate of score
\* 75 or more; otherwise no entry, and film_id is make_film_id of the title
\* (and the year, when the film has one).
C15_FirstHitWins ==
    last.op \in {"letterboxd_match", "criterion_match"} =>
        \A k \in DOMAIN last.matched :
            LET film == last.films[k]
                out == last.matched[k]
            IN IF UrlHits(film) # {}
               THEN out.match_method = "criterion_url" /\ EntriesOf(out) \cap UrlHits(film) # {}
               ELSE IF ExactHits(film) # {}
               THEN Least(ExactHits(film)) \in EntriesOf(out)
               ELSE IF FuzzyHits(film) # {}
               THEN /\ out.match_method = "fuzzy"
                    /\ \E i \in EntriesOf(out) \cap FuzzyHits(film) :
                          /\ out.match_score = FuzzyScore(film, i)
                          /\ \A j \in FuzzyHits(film) : FuzzyScore(film, j) <= FuzzyScore(film, i)
               ELSE /\ out.match_method = None /\ out.catalog_spine = None
                    /\ out.film_id = make_film_id(film.title,
                                                  IF film.source = "letterboxd" THEN film.year ELSE None)

(***************************************************************************)
(* migrate_source_visit.py: source and visit_index of every pick           *)
(***************************************************************************)
\* the index of the last record of a loop that wrote a dict key
LastWriter(writers) == CHOOSE i \in writers : \A j \in writers : j <= i

\* backfill_source_raw
backfill_source_raw(raw) ==
    [i \in DOMAIN raw |->
        IF Truthy(raw[i].source) THEN raw[i]
        ELSE [raw[i] EXCEPT !.source = IF Truthy(raw[i].criterion_film_url)
                                       THEN "criterion" ELSE "letterboxd"]]

\* backfill_source_picks: raw_source.get((slug, key))
raw_source(raw, slug, key) ==
    LET writers == {i \in DOMAIN raw :
                      /\ raw[i].guest_slug = slug
                      /\ \/ lower(raw[i].film_title) = key
                         \/ raw[i].film_id # "" /\ raw[i].film_id = key}
    IN IF writers = {} THEN None
       ELSE IF raw[LastWriter(writers)].source = NoKey THEN "letterboxd"
       ELSE raw[LastWriter(writers)].source

backfill_source_picks(pks, raw) ==
    [i \in DOMAIN pks |->
        LET p == pks[i]
            by_title == raw_source(raw, p.guest_slug, lower(p.film_title))
            source == IF Truthy(by_title) THEN by_title
                      ELSE raw_source(raw, p.guest_slug, film_key(p))
        IN [p EXCEPT !.source = IF Truthy(source) THEN source ELSE "letterboxd"]]

\* _extract_video_id_from_url: the v= parameter of the query string
extract_video_id_from_url(url) ==
    CASE url = "https://www.youtube.com/watch?v=vidA&t=10s" -> "vidA"
      [] url = "https://www.youtube.com/watch?v=vidB&t=20s" -> "vidB"
      [] OTHER -> None

\* _extract_vimeo_id_from_url: the first all-digit path segment, cut at #
extract_vimeo_id_from_url(url) ==
    CASE url = "https://vimeo.com/9001#t=30s" -> "9001"
      [] OTHER -> None

multi_visit_slugs(gs) == {gs[i].slug : i \in {i \in DOMAIN gs : Len(gs[i].visits) >= 2}}

\* backfill_visit_index_picks: video_to_visit.get((slug, vid))
video_to_visit(gs, slug, vid) ==
    LET writers == {w \in {<<g, v>> : g \in DOMAIN gs, v \in 1..2} :
                      /\ Len(gs[w[1]].visits) >= 2
                      /\ w[2] <= Len(gs[w[1]].visits)
                      /\ gs[w[1]].slug = slug
                      /\ \/ /\ Truthy(gs[w[1]].visits[w[2]].youtube_video_id)
                            /\ gs[w[1]].visits[w[2]].youtube_video_id = vid
                         \/ /\ Truthy(gs[w[1]].visits[w[2]].vimeo_video_id)
                            /\ gs[w[1]].visits[w[2]].vimeo_video_id = vid}
        final == CHOOSE w \in writers :
                    \A x \in writers : x[1] < w[1] \/ (x[1] = w[1] /\ x[2] <= w[2])
    IN IF writers = {} THEN 0 ELSE final[2]

\* backfill_visit_index_picks, first pass: the visit of the pick's video
video_visit(p, gs) ==
    LET vid == extract_video_id_from_url(IF p.youtube_timestamp_url = NoKey THEN ""
                                         ELSE p.youtube_timestamp_url)
        by_youtube == IF Truthy(vid) THEN video_to_visit(gs, p.guest_slug, vid) ELSE 0
        vim_id == extract_vimeo_id_from_url(IF p.vimeo_timestamp_url = NoKey THEN ""
                                            ELSE p.vimeo_timestamp_url)
    IN IF by_youtube # 0 THEN by_youtube
       ELSE IF Truthy(vim_id) THEN video_to_visit(gs, p.guest_slug, vim_id) ELSE 0

backfill_visit_index_picks(pks, gs) ==
    [i \in DOMAIN pks |->
        IF pks[i].guest_slug \notin multi_visit_slugs(gs)
        THEN [pks[i] EXCEPT !.visit_index = 1]
        ELSE IF video_visit(pks[i], gs) # 0
        THEN [pks[i] EXCEPT !.visit_index = video_visit(pks[i], gs)]
        ELSE [pks[i] EXCEPT !.visit_index = 1]]

\* p.get("visit_index") is truthy; a record without the key, or with None
\* for it, is kept with visit_index 0, which Python takes for false as well
HasVisit(r) == r.visit_index # 0

guests_with_multi_criterion(gs) ==
    {gs[i].slug : i \in {i \in DOMAIN gs :
        Cardinality({gs[i].visits[v].criterion_page_url : v \in DOMAIN gs[i].visits}
                    \ {None, NoKey, ""}) >= 2}}

\* override_visit_from_criterion: criterion_visit.get((slug, key))
criterion_visit(raw, gs, slug, key) ==
    LET writers == {i \in DOMAIN raw :
                      /\ raw[i].source = "criterion"
                      /\ raw[i].guest_slug \in guests_with_multi_criterion(gs)
                      /\ HasVisit(raw[i])
                      /\ raw[i].guest_slug = slug
                      /\ \/ raw[i].film_id # "" /\ raw[i].film_id = key
                         \/ lower(raw[i].film_title) # "" /\ lower(raw[i].film_title) = key}
    IN IF writers = {} THEN 0 ELSE raw[LastWriter(writers)].visit_index

\* A pass that overrides nothing.
override_nothing(pks, raw, gs) == pks

override_visit_from_criterion(pks, raw, gs) ==
    [i \in DOMAIN pks |->
        LET p == pks[i]
            by_id == criterion_visit(raw, gs, p.guest_slug, film_key(p))
            raw_vi == IF by_id # 0 THEN by_id
                      ELSE criterion_visit(raw, gs, p.guest_slug, lower(p.film_title))
        IN IF p.source # "criterion" \/ p.guest_slug \notin guests_with_multi_criterion(gs)
           THEN p
           ELSE IF raw_vi # 0 /\ p.visit_index # raw_vi
           THEN [p EXCEPT !.visit_index = raw_vi]
           ELSE p]

\* backfill_visit_index_raw: picks_visit.get((slug, key))
picks_visit(pks, slug, key) ==
    LET writers == {i \in DOMAIN pks :
                      /\ pks[i].guest_slug = slug
                      /\ HasVisit(pks[i])
                      /\ \/ film_key(pks[i]) # "" /\ film_key(pks[i]) = key
                         \/ lower(pks[i].film_title) # "" /\ lower(pks[i].film_title) = key}
    IN IF writers = {} THEN 0 ELSE pks[LastWriter(writers)].visit_index

\* A second pass that always takes the first visit.
deferred_first_visit(slug, pks, gs) == 1

\* backfill_visit_index_raw, second pass: the visit of a raw pick that no
\* pick of picks.json accounts for
deferred_visit(slug, pks, gs) ==
    LET known == {pks[i].visit_index :
                     i \in {i \in DOMAIN pks : /\ pks[i].guest_slug = slug
                                               /\ slug \in multi_visit_slugs(gs)
                                               /\ HasVisit(pks[i])}}
        num_visits == Len(gs[LastWriter({i \in DOMAIN gs : gs[i].slug = slug})].visits)
    IN IF Cardinality(known) = 1 /\ num_visits = 2
       THEN (IF 2 \in known THEN 1 ELSE 2)
       ELSE 1

backfill_visit_index_raw(raw, pks, gs) ==
    [i \in DOMAIN raw |->
        LET p == raw[i]
            by_id == picks_visit(pks, p.guest_slug, p.film_id)
            visit_idx == IF by_id # 0 THEN by_id
                         ELSE picks_visit(pks, p.guest_slug, lower(p.film_title))
        IN IF p.source = "criterion" /\ HasVisit(p) THEN p
           ELSE IF p.guest_slug \notin multi_visit_slugs(gs)
           THEN [p EXCEPT !.visit_index = 1]
           ELSE IF visit_idx # 0
           THEN [p EXCEPT !.visit_index = visit_idx]
           ELSE [p EXCEPT !.visit_index = deferred_visit(p.guest_slug, pks, gs)]]

\* update_pick_counts: the displayable picks of one guest
displayable(slug, pks, raw) ==
    LET guest_picks == {i \in DOMAIN pks : pks[i].guest_slug = slug}
        processed_slugs == {film_key(pks[i]) : i \in guest_picks}
    IN Cardinality({i \in guest_picks : pks[i].source = "criterion" \/ ~Blank(pks[i].quote)})
       + Cardinality({i \in DOMAIN raw : /\ raw[i].guest_slug = slug
                                         /\ raw[i].film_id \notin processed_slugs
                                         /\ raw[i].source = "criterion"})

update_pick_counts(gs, pks, raw) ==
    [i \in DOMAIN gs |-> [gs[i] EXCEPT !.pick_count = displayable(gs[i].slug, pks, raw)]]

\* main, steps 1 to 6
migrate_source_visit(S) ==
    LET raw1 == backfill_source_raw(S.picks_raw)
        picks2 == backfill_source_picks(S.picks, raw1)
        picks3 == backfill_visit_index_picks(picks2, S.guests)
        picks4 == override_visit_from_criterion(picks3, raw1, S.guests)
        raw5 == backfill_visit_index_raw(raw1, picks4, S.guests)
    IN [ guests |-> update_pick_counts(S.guests, picks4, raw5),
         picks |-> picks4,
         picks_raw |-> raw5 ]

(***************************************************************************)
(* The visit attributor as a state machine.  The store holds what the      *)
(* Criterion scraper and the quote extractor left: bill-hader has two      *)
(* collection pages, barry-jenkins one; normalize_guests.py may or may not *)
(* have built bill-hader's visits yet.                                     *)
(***************************************************************************)
MaxVisitPicks == 2
MaxVisitRawPicks == 2
MaxVisitRuns == 2

\* <<film_id, film_title, criterion_film_url>>
VisitFilms == {
    <<"roma-1972", "Roma", "https://www.criterion.com/films/28039-roma">>,
    <<"roma-2018", "Roma", "https://www.criterion.com/films/30124-roma">>,
    <<"solaris", "Solaris", "https://www.criterion.com/films/27718-solaris">> }

\* normalize_guests.py, sections 2 and 8: the two visits of a guest with two
\* collection pages, each with the page of VISIT_CRITERION_URLS at its place
BuiltVisits(slug, videos) ==
    [v \in 1..2 |->
        [BlankVisit(Get(VISIT_CRITERION_URLS, slug)[v]) EXCEPT
            !.youtube_video_id = videos[v][1],
            !.youtube_video_url = IF Truthy(videos[v][1]) THEN YoutubeUrl(videos[v][1]) ELSE None,
            !.vimeo_video_id = videos[v][2]]]

\* <<youtube_video_id, vimeo_video_id>> of visit 1 and of visit 2
VisitVideos == {
    << <<"vidA", None>>, <<"vidB", None>> >>,
    << <<"vidA", None>>, <<None, "9001">> >>,
    << <<"vidA", None>>, <<None, None>> >> }

VisitGuest(slug, visits) == [slug |-> slug, visits |-> visits, pick_count |-> 0]

VisitGuestChoices ==
    {<<VisitGuest("bill-hader", visits), VisitGuest("barry-jenkins", <<>>)>> :
        visits \in {<<>>} \cup {BuiltVisits("bill-hader", videos) : videos \in VisitVideos}}

\* scrape_criterion_picks.main: the visit of the collection page that a
\* film of an existing guest was scraped from
scraped_visit_index(existing_guest, url) ==
    LET on_visit == {v \in DOMAIN existing_guest.visits :
                        existing_guest.visits[v].criterion_page_url = url}
        slug_urls == IF HasKey(VISIT_CRITERION_URLS, existing_guest.slug)
                     THEN Get(VISIT_CRITERION_URLS, existing_guest.slug) ELSE <<>>
        in_table == {k \in DOMAIN slug_urls : slug_urls[k] = url}
    IN IF on_visit # {} THEN Least(on_visit)
       ELSE IF in_table # {} THEN Least(in_table)
       ELSE 1

\* scrape_criterion_picks.main: a raw pick scraped from a collection page
ScrapedRawPick(guest, film, url) ==
    [ guest_slug |-> guest.slug, film_id |-> film[1], film_title |-> film[2],
      criterion_film_url |-> film[3], source |-> "criterion",
      visit_index |-> scraped_visit_index(guest, url) ]

\* the raw picks of one guest: scraped from one of the guest's pages; the
\* same with visit_index reset before a re-scrape that no longer found the
\* film; or taken from a Letterboxd list before source and visit_index existed
VisitRawPicks(guest) ==
    LET pages == Range(Get(VISIT_CRITERION_URLS, guest.slug))
        films == IF guest.slug = "barry-jenkins"
                 THEN {f \in VisitFilms : f[1] = "solaris"} ELSE VisitFilms
        scraped == {ScrapedRawPick(guest, f, url) : f \in films, url \in pages}
    IN scraped
       \cup {[r EXCEPT !.visit_index = 0] : r \in {r \in scraped : Cardinality(pages) >= 2}}
       \cup {[ScrapedRawPick(guest, f, "") EXCEPT !.criterion_film_url = "",
                                                  !.source = NoKey, !.visit_index = 0] : f \in films}

VisitTimestamps == {
    <<"", NoKey>>,
    <<"https://www.youtube.com/watch?v=vidA&t=10s", NoKey>>,
    <<"https://www.youtube.com/watch?v=vidB&t=20s", NoKey>>,
    <<"", "https://vimeo.com/9001#t=30s">> }

\* extract_quotes.py: the pick made of a raw pick, with the quote and the
\* timestamp URL of the video the quote was found in
VisitPick(r, stamp) ==
    [ guest_slug |-> r.guest_slug, film_id |-> r.film_id, film_slug |-> NoKey,
      film_title |-> r.film_title, source |-> r.source,
      quote |-> IF stamp = <<"", NoKey>> THEN "" ELSE "I love this one.",
      youtube_timestamp_url |-> stamp[1], vimeo_timestamp_url |-> stamp[2],
      visit_index |-> 0 ]

InitVisits ==
    /\ \E gs \in VisitGuestChoices :
       \E raw \in SeqsUpTo(VisitRawPicks(gs[1]) \cup VisitRawPicks(gs[2]), MaxVisitRawPicks) :
       \E from \in SeqsUpTo(DOMAIN raw, MaxVisitPicks) :
       \E stamps \in [DOMAIN from -> VisitTimestamps] :
          /\ RawKeysDistinct(raw)
          /\ \A i, j \in DOMAIN from : from[i] = from[j] => i = j
          /\ \A i \in DOMAIN from :
                raw[from[i]].guest_slug = "barry-jenkins" => stamps[i] = <<"", NoKey>>
          /\ guests = [g \in DOMAIN gs |->
                         [gs[g] EXCEPT !.pick_count =
                             Cardinality({i \in DOMAIN raw : raw[i].guest_slug = gs[g].slug})]]
          /\ picks_raw = raw
          /\ picks = [i \in DOMAIN from |-> VisitPick(raw[from[i]], stamps[i])]
    /\ catalog = <<>>
    /\ before = [guests |-> <<>>, picks |-> <<>>, picks_raw |-> <<>>]
    /\ last = [op |-> "none"]
    /\ runs = 0
    /\ checkpoint = <<>>
    /\ lock = <<>>
    /\ threads = NoThreads

\* migrate_source_visit.main
MigrateSourceVisit ==
    \E dry_run \in BOOLEAN :
        LET S == [guests |-> guests, picks |-> picks, picks_raw |-> picks_raw]
            T == migrate_source_visit(S)
        IN /\ runs < MaxVisitRuns
           /\ runs' = runs + 1
           /\ before' = S
           /\ last' = [op |-> "migrate_source_visit", dry_run |-> dry_run, result |-> T,
                       rerun |-> last.op = "migrate_source_visit"
                                 /\ (~last.dry_run \/ last.rerun)]
           /\ IF dry_run
              THEN UNCHANGED <<guests, picks, picks_raw>>
              ELSE guests' = T.guests /\ picks' = T.picks /\ picks_raw' = T.picks_raw
           /\ UNCHANGED catalog
           /\ UNCHANGED <<checkpoint, lock, threads>>

NextVisits == MigrateSourceVisit

SpecVisits == InitVisits /\ [][NextVisits]_vars

(***************************************************************************)
(* Claims about the visit attributor                                       *)
(***************************************************************************)
AfterAttribution == last.op = "migrate_source_visit" /\ ~last.dry_run

\* the number of visits recorded on a guest
VisitCount(slug) ==
    IF \E i \in DOMAIN guests : guests[i].slug = slug
    THEN Len(guests[LastWriter({i \in DOMAIN guests : guests[i].slug = slug})].visits)
    ELSE 0

\* C16 (as claimed): after the visit attributor has run, every record of
\* picks and of picks_raw has a visit_index, and it lies between 1 and the
\* number of visits recorded on its guest; it is exactly 1 for a guest with
\* fewer than two visits.
C16_VisitIndexInRange ==
    AfterAttribution =>
        \A r \in Range(picks) \cup Range(picks_raw) :
            /\ HasVisit(r)
            /\ r.visit_index >= 1
            /\ IF VisitCount(r.guest_slug) < 2
               THEN r.visit_index = 1
               ELSE r.visit_index <= VisitCount(r.guest_slug)

\* the criterion-sourced raw picks of pick i's guest that came to the pass
\* with a visit index
PageRaw(i) ==
    {j \in DOMAIN picks_raw :
        /\ picks_raw[j].guest_slug = picks[i].guest_slug
        /\ picks_raw[j].source = "criterion"
        /\ HasVisit(before.picks_raw[j])}

\* those of them that match pick i: the one of the same film id, or, when
\* there is none, those of the same title
MatchingRaw(i) ==
    LET by_id == {j \in PageRaw(i) : picks_raw[j].film_id = film_key(picks[i])}
    IN IF by_id # {} THEN by_id
       ELSE {j \in PageRaw(i) : lower(picks_raw[j].film_title) = lower(picks[i].film_title)}

\* C17: for a guest whose visits carry at least two distinct page URLs, a
\* criterion-sourced pick with a matching criterion-sourced raw record that
\* has a visit index ends the attribution pass with that raw record's visit
\* index, whatever the video id of the pick's timestamp URL says.
C17_PageIndexOverridesVideo ==
    AfterAttribution =>
        \A i \in DOMAIN picks :
            (/\ picks[i].source = "criterion"
             /\ picks[i].guest_slug \in guests_with_multi_criterion(guests))
            => \A j \in MatchingRaw(i) : picks[i].visit_index = before.picks_raw[j].visit_index

\* a criterion-sourced pick whose timestamp URL is of the video of visit 1
\* and whose raw record was scraped from the page of visit 2
C17_Witness ==
    /\ AfterAttribution
    /\ \E i \in DOMAIN picks :
          /\ picks[i].source = "criterion"
          /\ picks[i].guest_slug \in guests_with_multi_criterion(guests)
          /\ video_visit(picks[i], guests) = 1
          /\ \E j \in MatchingRaw(i) : before.picks_raw[j].visit_index = 2
          /\ picks[i].visit_index = 2

MultiVisit(slug) == slug \in multi_visit_slugs(guests)

\* pick i has its visit from the video of its timestamp URL or from the
\* page index of a matching raw record
PickResolved(i) ==
    \/ video_visit(picks[i], guests) # 0
    \/ /\ picks[i].source = "criterion"
       /\ picks[i].guest_slug \in guests_with_multi_criterion(guests)
       /\ MatchingRaw(i) # {}

\* raw pick j came to the pass with the index of its page
RawPreserved(j) == picks_raw[j].source = "criterion" /\ HasVisit(before.picks_raw[j])

\* the reconciled picks of raw pick j's film: of the same film id, or, when
\* there is none, of the same title
PicksOfRaw(j) ==
    LET mine == {i \in DOMAIN picks : picks[i].guest_slug = picks_raw[j].guest_slug}
        by_id == {i \in mine : film_key(picks[i]) = picks_raw[j].film_id}
    IN IF by_id # {} THEN by_id
       ELSE {i \in mine : lower(picks[i].film_title) = lower(picks_raw[j].film_title)}

RawResolved(j) == RawPreserved(j) \/ \E i \in PicksOfRaw(j) : PickResolved(i)

VisitsCovered(slug) ==
    {picks[i].visit_index : i \in {i \in DOMAIN picks : picks[i].guest_slug = slug}}

TranscriptFiles == {"vidA", "vidB", "9001"}

\* guest.get("youtube_video_id") or guest.get("vimeo_video_id")
video_id_of(guest) ==
    IF Truthy(guest.youtube_video_id) THEN guest.youtube_video_id ELSE guest.vimeo_video_id

\* picks_by_guest.get(slug, [])
picks_by_guest(raw, slug) == SelectIdx(raw, {i \in DOMAIN raw : raw[i].guest_slug = slug}, 1)

\* A selection that never looks at the checkpoint.
get_all_guests(force, gs, raw, cp) ==
    SelectIdx(gs, {i \in DOMAIN gs :
                     /\ Truthy(video_id_of(gs[i]))
                     /\ picks_by_guest(raw, gs[i].slug) # <<>>
                     /\ video_id_of(gs[i]) \in TranscriptFiles}, 1)

get_guests_to_process(force, gs, raw, cp) ==
    SelectIdx(gs, {i \in DOMAIN gs :
                     /\ Truthy(video_id_of(gs[i]))
                     /\ picks_by_guest(raw, gs[i].slug) # <<>>
                     /\ video_id_of(gs[i]) \in TranscriptFiles
                     /\ ~(~force /\ gs[i].slug \in DOMAIN cp)}, 1)

\* main: slugs[i:i + shard_size] for i in range(0, len(slugs), shard_size),
\* with shard_size = math.ceil(len(slugs) / workers)
split_into_shards(slugs, workers) ==
    LET shard_size == (Len(slugs) + workers - 1) \div workers
        count == (Len(slugs) + shard_size - 1) \div shard_size
    IN [s \in 1..count |->
          SubSeq(slugs, (s - 1) * shard_size + 1,
                 IF s * shard_size < Len(slugs) THEN s * shard_size ELSE Len(slugs))]

\* process_shard: the pick with the quote that the model found for it
QuotedPick(pick, guest, quote) ==
    LET video_id == video_id_of(guest)
    IN [pick EXCEPT
          !.quote = quote.quote,
          !.start_timestamp = quote.start_timestamp,
          !.extraction_confidence = quote.confidence,
          !.visit_index = 1,
          !.vimeo_timestamp_url =
              IF Truthy(video_id) /\ Truthy(quote.start_timestamp) /\ ~Truthy(guest.youtube_video_id)
              THEN "https://vimeo.com/" \o video_id \o "#t=" \o quote.start_timestamp \o "s"
              ELSE @,
          !.youtube_timestamp_url =
              IF Truthy(video_id) /\ Truthy(quote.start_timestamp) /\ Truthy(guest.youtube_video_id)
              THEN "https://www.youtube.com/watch?v=" \o video_id \o "&t=" \o quote.start_timestamp
              ELSE @]

\* process_shard: results[(slug, film_title)] = pick for every pick of the
\* guest, in order; results is a list of <<key, pick>>
RECURSIVE put_results(_, _, _, _)
put_results(results, guest_picks, guest, quotes) ==
    IF guest_picks = <<>> THEN results
    ELSE LET pick == Head(guest_picks)
             found == {q \in DOMAIN quotes : lower(quotes[q].film_title) = lower(pick.film_title)}
             out == IF found = {} THEN pick ELSE QuotedPick(pick, guest, quotes[LastWriter(found)])
             key == <<pick.guest_slug, pick.film_title>>
             at == {r \in DOMAIN results : results[r][1] = key}
             next == IF at = {} THEN Append(results, <<key, out>>)
                     ELSE [results EXCEPT ![LastWriter(at)] = <<key, out>>]
         IN IF Len(next) >= 0 THEN put_results(next, Tail(guest_picks), guest, quotes) ELSE next

\* _update_checkpoint: checkpoint[slug] = data
with_entry(cp, slug, data) ==
    [s \in DOMAIN cp \cup {slug} |-> IF s = slug THEN data ELSE cp[s]]

\* threading.Lock: acquire() goes through when nobody holds the lock
can_always_acquire(holder) == TRUE

can_acquire(holder) == holder = <<>>

\* clean_quotes.clean_quote: fillers and repeated words dropped, first
\* letter capitalized, an ellipsis added to a quote that ends mid-sentence
clean_quote(text) ==
    CASE text = "um it is a a masterpiece" -> "It is a masterpiece..."
      [] text = " " -> ""
      [] OTHER -> text

\* main: existing_pick_index[key] = pick for the results of every shard,
\* then list(existing_pick_index.values())
RECURSIVE merge_results(_, _)
merge_results(index, results) ==
    IF results = <<>> THEN index
    ELSE LET at == {r \in DOMAIN index : index[r][1] = Head(results)[1]}
             next == IF at = {} THEN Append(index, Head(results))
                     ELSE [index EXCEPT ![LastWriter(at)] = Head(results)]
         IN IF Len(next) >= 0 THEN merge_results(next, Tail(results)) ELSE next

RECURSIVE all_results_of(_, _)
all_results_of(workers, completed) ==
    IF completed = <<>> THEN <<>>
    ELSE merge_results(all_results_of(workers, SubSeq(completed, 1, Len(completed) - 1)),
                       workers[completed[Len(completed)]].results)

merged_picks(existing_picks, workers, completed) ==
    LET index == merge_results(<<>>, [i \in DOMAIN existing_picks |->
                     <<<<existing_picks[i].guest_slug, existing_picks[i].film_title>>, existing_picks[i]>>])
        all == merge_results(index, all_results_of(workers, completed))
    IN [i \in DOMAIN all |->
          IF Truthy(all[i][2].quote)
          THEN [all[i][2] EXCEPT !.quote = clean_quote(@)]
          ELSE all[i][2]]

(***************************************************************************)
(* The parallel extraction as a state machine: the main thread starts one  *)
(* worker thread per shard, the workers run interleaved, and the main      *)
(* thread merges and saves when all of them have returned.                 *)
(***************************************************************************)
MaxWorkers == 3
MaxParallelRuns == 2

ParallelGuest(slug, youtube, vimeo) ==
    [ slug |-> slug, name |-> slug, youtube_video_id |-> youtube, vimeo_video_id |-> vimeo ]

\* hans-zimmer's video has no transcript file
ParallelGuests == <<
    ParallelGuest("ari-aster", "vidA", None),
    ParallelGuest("bill-hader", "vidB", None),
    ParallelGuest("wim-wenders", None, "9001"),
    ParallelGuest("hans-zimmer", "vidD", None) >>

\* scrape_criterion_picks.main: a raw pick before extraction
ParallelRawPick(slug) ==
    [ guest_slug |-> slug, film_title |-> "Solaris", film_id |-> "solaris",
      source |-> "criterion", visit_index |-> 1, quote |-> "", start_timestamp |-> None,
      youtube_timestamp_url |-> "", vimeo_timestamp_url |-> NoKey,
      extraction_confidence |-> "none" ]

\* what the model returns for one guest: nothing usable, or one quote
ModelQuotes(guest_picks) ==
    { <<>> } \cup
    { <<[film_title |-> guest_picks[p].film_title, quote |-> "um it is a a masterpiece",
         start_timestamp |-> "10", confidence |-> "high"]>> : p \in DOMAIN guest_picks }

CheckpointData(quotes, guest_picks) ==
    [ quotes_count |-> Len(quotes), picks_count |-> Len(guest_picks) ]

InitParallel ==
    /\ guests = ParallelGuests
    /\ \E without \in {{}} \cup {{ParallelGuests[g].slug} : g \in DOMAIN ParallelGuests} :
          picks_raw = SelectIdx([g \in DOMAIN ParallelGuests |-> ParallelRawPick(ParallelGuests[g].slug)],
                                {g \in DOMAIN ParallelGuests : ParallelGuests[g].slug \notin without}, 1)
    /\ picks \in {<<>>, <<ParallelRawPick("ari-aster")>>}
    /\ \E done \in {{}, {"ari-aster"}, {"hans-zimmer"}} :
          checkpoint = [s \in done |-> CheckpointData(<<1>>, <<1>>)]
    /\ catalog = <<>>
    /\ before = NoDocs
    /\ last = [op |-> "none"]
    /\ runs = 0
    /\ lock = <<>>
    /\ threads = NoThreads

Worker(shard) ==
    [ pc |-> "extract", shard |-> shard, k |-> 1, quotes |-> <<>>, checkpoint |-> <<>>,
      results |-> <<>>, processed |-> 0, errors |-> 0 ]

\* main, up to the submission of the shards
StartRun ==
    \E force \in BOOLEAN, workers \in 1..MaxWorkers :
        LET processable == get_guests_to_process(force, guests, picks_raw, checkpoint)
            slugs == [i \in DOMAIN processable |-> processable[i].slug]
            shards == IF processable = <<>> THEN <<>> ELSE split_into_shards(slugs, workers)
        IN /\ threads.main \in {"idle", "done"}
           /\ runs < MaxParallelRuns
           /\ runs' = runs + 1
           /\ before' = [guests |-> guests, picks |-> picks, picks_raw |-> picks_raw,
                         checkpoint |-> checkpoint]
           /\ last' = [op |-> "extract_quotes_parallel", force |-> force, workers |-> workers]
           /\ threads' = [ main |-> IF processable = <<>> THEN "done" ELSE "waiting",
                           force |-> force,
                           shards |-> shards,
                           workers |-> [i \in DOMAIN shards |-> Worker(shards[i])],
                           completed |-> <<>> ]
           /\ UNCHANGED <<catalog, guests, picks_raw, picks, checkpoint, lock>>

Running(i) == threads.main = "waiting" /\ i \in DOMAIN threads.workers

\* process_shard: one guest of the shard, up to the checkpoint update
Extract(i) ==
    /\ Running(i)
    /\ threads.workers[i].pc = "extract"
    /\ threads.workers[i].k <= Len(threads.workers[i].shard)
    /\ LET w == threads.workers[i]
           slug == w.shard[w.k]
           found == {g \in DOMAIN guests : guests[g].slug = slug}
           guest == guests[LastWriter(found)]
           guest_picks == picks_by_guest(picks_raw, slug)
       IN IF found = {} \/ video_id_of(guest) \notin TranscriptFiles
          THEN threads' = [threads EXCEPT !.workers[i].k = w.k + 1]
          ELSE \E quotes \in ModelQuotes(guest_picks) :
                  threads' =
                     IF quotes = <<>>
                     THEN [threads EXCEPT !.workers[i].k = w.k + 1,
                                          !.workers[i].errors = w.errors + 1]
                     ELSE [threads EXCEPT
                              !.workers[i].results = put_results(w.results, guest_picks, guest, quotes),
                              !.workers[i].quotes = quotes,
                              !.workers[i].pc = "acquire"]
    /\ UNCHANGED <<catalog, guests, picks_raw, picks, before, last, runs, checkpoint, lock>>

\* _update_checkpoint: with _checkpoint_lock
Acquire(i) ==
    /\ Running(i)
    /\ threads.workers[i].pc = "acquire"
    /\ can_acquire(lock)
    /\ lock' = <<i>>
    /\ threads' = [threads EXCEPT !.workers[i].pc = "load"]
    /\ UNCHANGED <<catalog, guests, picks_raw, picks, before, last, runs, checkpoint>>

\* _update_checkpoint: checkpoint = load_json(CHECKPOINT_FILE) or {}
Load(i) ==
    /\ Running(i)
    /\ threads.workers[i].pc = "load"
    /\ threads' = [threads EXCEPT !.workers[i].pc = "save",
                                  !.workers[i].checkpoint = checkpoint]
    /\ UNCHANGED <<catalog, guests, picks_raw, picks, before, last, runs, checkpoint, lock>>

\* _update_checkpoint: checkpoint[slug] = data; save_json(CHECKPOINT_FILE, checkpoint)
Save(i) ==
    /\ Running(i)
    /\ threads.workers[i].pc = "save"
    /\ LET w == threads.workers[i]
           slug == w.shard[w.k]
       IN checkpoint' = with_entry(w.checkpoint, slug,
                                   CheckpointData(w.quotes, picks_by_guest(picks_raw, slug)))
    /\ threads' = [threads EXCEPT !.workers[i].pc = "release"]
    /\ UNCHANGED <<catalog, guests, picks_raw, picks, before, last, runs, lock>>

\* _update_checkpoint: the end of the with block; process_shard: processed += 1
Release(i) ==
    /\ Running(i)
    /\ threads.workers[i].pc = "release"
    /\ lock' = <<>>
    /\ threads' = [threads EXCEPT !.workers[i].pc = "extract",
                                  !.workers[i].k = @ + 1,
                                  !.workers[i].processed = @ + 1]
    /\ UNCHANGED <<catalog, guests, picks_raw, picks, before, last, runs, checkpoint>>

\* process_shard: return
Return(i) ==
    /\ Running(i)
    /\ threads.workers[i].pc = "extract"
    /\ threads.workers[i].k > Len(threads.workers[i].shard)
    /\ threads' = [threads EXCEPT !.workers[i].pc = "done",
                                  !.completed = Append(@, i)]
    /\ UNCHANGED <<catalog, guests, picks_raw, picks, before, last, runs, checkpoint, lock>>

\* main, after every shard has returned or raised: merge the results of the
\* shards that returned, clean, save
FinishRun ==
    /\ threads.main = "waiting"
    /\ \A i \in DOMAIN threads.workers : threads.workers[i].pc \in {"done", "failed"}
    /\ picks' = merged_picks(picks, threads.workers, threads.completed)
    /\ threads' = [threads EXCEPT !.main = "done"]
    /\ UNCHANGED <<catalog, guests, picks_raw, before, last, runs, checkpoint, lock>>

NextParallel ==
    \/ StartRun
    \/ \E i \in 1..MaxWorkers : Extract(i)
    \/ \E i \in 1..MaxWorkers : Acquire(i)
    \/ \E i \in 1..MaxWorkers : Load(i)
    \/ \E i \in 1..MaxWorkers : Save(i)
    \/ \E i \in 1..MaxWorkers : Release(i)
    \/ \E i \in 1..MaxWorkers : Return(i)
    \/ FinishRun

SpecParallel == InitParallel /\ [][NextParallel]_vars

(***************************************************************************)
(* Claims about the parallel extraction                                    *)
(***************************************************************************)
\* the guests that worker i has checkpointed so far
Checkpointed(i) ==
    LET w == threads.workers[i]
    IN {w.shard[k] : k \in {k \in DOMAIN w.shard :
                               /\ \E r \in DOMAIN w.results : w.results[r][1][1] = w.shard[k]
                               /\ \/ k < w.k
                                  \/ k = w.k /\ w.pc = "release"}}

\* C19: with any number of shard workers running concurrently, a worker is
\* inside the read-modify-write of the checkpoint store only while it holds
\* the checkpoint lock, and the store has an entry for every guest that any
\* worker has checkpointed: no update is lost, during the run and after all
\* workers have finished.
C19_NoCheckpointLost ==
    threads.main \in {"waiting", "done"} =>
        \A i \in DOMAIN threads.workers :
            /\ threads.workers[i].pc \in {"load", "save", "release"} => lock = <<i>>
            /\ Checkpointed(i) \subseteq DOMAIN checkpoint

\* all workers have finished and two of them have checkpointed a guest
\* each, so that both entries went through the one checkpoint file
C19_Witness ==
    /\ threads.main = "done"
    /\ \E i, j \in DOMAIN threads.workers :
          /\ i # j
          /\ Checkpointed(i) # {} /\ Checkpointed(j) # {}
          /\ Checkpointed(i) \cup Checkpointed(j) \subseteq DOMAIN checkpoint

\* the guests that a run can extract from: a video, raw picks, a transcript
Eligible ==
    {before.guests[g].slug : g \in {g \in DOMAIN before.guests :
        /\ Truthy(video_id_of(before.guests[g]))
        /\ \E r \in DOMAIN before.picks_raw : before.picks_raw[r].guest_slug = before.guests[g].slug
        /\ video_id_of(before.guests[g]) \in TranscriptFiles}}

Assigned(i) == Range(threads.shards[i])

MaxEnrichItems == 3

\* what a call to the collaborator (criterion.com, Gemini) can do
Outcomes == {"ok", "timeout", "exception", "malformed"}

\* scrape_box_set: the page's data as a set of <<key, value>> pairs, or
\* nothing ({}, Python's None) on a redirect, a status other than 200, a
\* page without data, or any exception
scrape_box_set(outcome) ==
    IF outcome = "ok" THEN {<<"description", "A collection of films.">>} ELSE {}

\* _extract_single_batch: the validated quotes, or [] on a JSON parse error,
\* a non-list response, or any exception
extract_single_batch(outcome) ==
    IF outcome = "ok"
    THEN <<[film_title |-> "Solaris", start_timestamp |-> "10",
            quote |-> "It is a masterpiece", confidence |-> "high"]>>
    ELSE <<>>

\* extract_quotes_for_guest, at most BATCH_SIZE picks: a single batch
extract_quotes_for_guest(outcome) == extract_single_batch(outcome)

EnrichCallers == {"enrich_box_sets", "extract_quotes", "extract_quotes_parallel"}

\* the loop over needs_enrichment / guests_to_process / guest_slugs
EnrichLoop(caller) ==
    [ main |-> "loop", caller |-> caller, i |-> 1, attempt |-> 1, calls |-> <<>>,
      enriched |-> {}, failed |-> {} ]

InitEnrich ==
    /\ \E n \in 1..MaxEnrichItems :
          catalog = [k \in 1..n |-> [film_id |-> k, is_box_set |-> TRUE, description |-> ""]]
    /\ \E caller \in EnrichCallers : threads = EnrichLoop(caller)
    /\ guests = <<>> /\ picks_raw = <<>> /\ picks = <<>>
    /\ before = NoDocs
    /\ last = [op |-> "none"]
    /\ runs = 0 /\ checkpoint = <<>> /\ lock = <<>>

\* enrich_box_sets.main: one call of scrape_box_set for entry i; a first
\* call without data is followed by a second one
EnrichBoxSet ==
    /\ threads.main = "loop" /\ threads.caller = "enrich_box_sets"
    /\ threads.i <= Len(catalog)
    /\ \E outcome \in Outcomes :
          LET data == scrape_box_set(outcome)
              called == [threads EXCEPT !.calls = Append(@, <<threads.i, outcome>>)]
          IN IF data = {} /\ threads.attempt = 1
             THEN /\ threads' = [called EXCEPT !.attempt = 2]
                  /\ UNCHANGED catalog
             ELSE IF data # {}
             THEN /\ catalog' = [catalog EXCEPT ![threads.i].description =
                                                  (CHOOSE d \in data : d[1] = "description")[2]]
                  /\ threads' = [called EXCEPT !.enriched = @ \cup {threads.i},
                                               !.i = @ + 1, !.attempt = 1]
             ELSE /\ threads' = [called EXCEPT !.failed = @ \cup {threads.i},
                                               !.i = @ + 1, !.attempt = 1]
                  /\ UNCHANGED catalog
    /\ UNCHANGED <<guests, picks_raw, picks, before, last, runs, checkpoint, lock>>

\* extract_quotes.main: one guest; no quotes counts an error and continues
ExtractQuotes ==
    /\ threads.main = "loop" /\ threads.caller = "extract_quotes"
    /\ threads.i <= Len(catalog)
    /\ \E outcome \in Outcomes :
          LET quotes == extract_quotes_for_guest(outcome)
              called == [threads EXCEPT !.calls = Append(@, <<threads.i, outcome>>)]
          IN IF quotes = <<>>
             THEN /\ threads' = [called EXCEPT !.failed = @ \cup {threads.i}, !.i = @ + 1]
                  /\ UNCHANGED checkpoint
             ELSE /\ threads' = [called EXCEPT !.enriched = @ \cup {threads.i}, !.i = @ + 1]
                  /\ checkpoint' = with_entry(checkpoint, threads.i,
                                              [quotes_count |-> Len(quotes)])
    /\ UNCHANGED <<catalog, guests, picks_raw, picks, before, last, runs, lock>>

\* extract_quotes_parallel.process_shard: one guest; an exception or no
\* quotes counts an error and continues
ExtractQuotesParallel ==
    /\ threads.main = "loop" /\ threads.caller = "extract_quotes_parallel"
    /\ threads.i <= Len(catalog)
    /\ \E outcome \in Outcomes :
          LET quotes == extract_quotes_for_guest(outcome)
              called == [threads EXCEPT !.calls = Append(@, <<threads.i, outcome>>)]
          IN IF quotes = <<>>
             THEN /\ threads' = [called EXCEPT !.failed = @ \cup {threads.i}, !.i = @ + 1]
                  /\ UNCHANGED checkpoint
             ELSE /\ threads' = [called EXCEPT !.enriched = @ \cup {threads.i}, !.i = @ + 1]
                  /\ checkpoint' = with_entry(checkpoint, threads.i,
                                              [quotes_count |-> Len(quotes)])
    /\ UNCHANGED <<catalog, guests, picks_raw, picks, before, last, runs, lock>>

\* the end of the loop
FinishEnrich ==
    /\ threads.main = "loop"
    /\ threads.i > Len(catalog)
    /\ threads' = [threads EXCEPT !.main = "done"]
    /\ last' = [op |-> threads.caller, enriched |-> threads.enriched, failed |-> threads.failed]
    /\ UNCHANGED <<catalog, guests, picks_raw, picks, before, runs, checkpoint, lock>>

NextEnrich ==
    \/ EnrichBoxSet
    \/ ExtractQuotes
    \/ ExtractQuotesParallel
    \/ FinishEnrich

SpecEnrich == InitEnrich /\ [][NextEnrich]_vars

\* the outcomes of the calls made for item k, in order
CallsFor(k) ==
    LET idx == {c \in DOMAIN threads.calls : threads.calls[c][1] = k}
        sel == SelectIdx(threads.calls, idx, 1)
    IN [c \in DOMAIN sel |-> sel[c][2]]

\* the items the loop has left behind
ItemsDone == {k \in DOMAIN catalog : k < threads.i}

\* C21: an item whose first call to the external collaborator fails
\* (timeout, exception or malformed response) is called exactly once more;
\* when the second call fails too the item is recorded as not enriched, and
\* the loop goes on to the next item.
C21_FailureRetriedOnce ==
    \A k \in ItemsDone :
        CallsFor(k)[1] # "ok" =>
            /\ Len(CallsFor(k)) = 2
            /\ CallsFor(k)[2] # "ok" => k \in threads.failed
            /\ CallsFor(k)[2] = "ok" => k \in threads.enriched

\* the same statement for enrich_box_sets.py alone
C21_BoxSetFailureRetriedOnce ==
    threads.caller = "enrich_box_sets" => C21_FailureRetriedOnce

(***************************************************************************)
(* process_all.py, steps 9 to 12, on the three documents: the migration,   *)
(* the TMDB enrichment, the second normalize pass and the validation       *)
(***************************************************************************)
MaxPipelinePicks == 2
MaxPipelineRawPicks == 2

\* guests.json records of the two guests of the visit model
PipelineGuest(g, name) ==
    [ slug |-> g.slug,
      name |-> name,
      youtube_video_id |-> IF g.visits = <<>> THEN None ELSE g.visits[1].youtube_video_id,
      youtube_video_url |-> IF g.visits = <<>> THEN None ELSE g.visits[1].youtube_video_url,
      vimeo_video_id |-> None,
      episode_date |-> None,
      letterboxd_list_url |-> None,
      criterion_page_url |-> Get(VISIT_CRITERION_URLS, g.slug)[1],
      profession |-> None,
      photo_url |-> None,
      guest_type |-> None,
      visits |-> g.visits,
      pick_count |-> g.pick_count ]

\* extract_quotes.py: the pick with its extraction confidence
PipelinePick(r, stamp) ==
    [ f \in DOMAIN VisitPick(r, stamp) \cup {"extraction_confidence"} |->
        IF f = "extraction_confidence"
        THEN (IF stamp = <<"", NoKey>> THEN "none" ELSE "high")
        ELSE VisitPick(r, stamp)[f] ]

\* enrich_tmdb.enrich_guest: profession of a person found on TMDB
enrich_guest(guest, found) ==
    IF Truthy(guest.guest_type) /\ guest.guest_type # "person" THEN guest
    ELSE IF Truthy(guest.profession) /\ Truthy(guest.photo_url) THEN guest
    ELSE IF ~found THEN guest
    ELSE [guest EXCEPT !.profession = IF Truthy(@) THEN @ ELSE "director"]

\* process_all.main: the steps from --from-step 9 on, by the skip flags
pipeline_steps(skip_enrich, skip_normalize, skip_validate) ==
    SelectIdx(<<9, 10, 11, 12>>,
              {1} \cup (IF skip_enrich THEN {} ELSE {2})
                  \cup (IF skip_normalize THEN {} ELSE {3})
                  \cup (IF skip_validate THEN {} ELSE {4}), 1)

InitPipeline ==
    /\ \E gs \in VisitGuestChoices :
       \E raw \in SeqsUpTo(VisitRawPicks(gs[1]) \cup VisitRawPicks(gs[2]), MaxPipelineRawPicks) :
       \E from \in SeqsUpTo(DOMAIN raw, MaxPipelinePicks) :
       \E quoted \in SUBSET DOMAIN from :
          /\ RawKeysDistinct(raw)
          /\ \A i, j \in DOMAIN from : from[i] = from[j] => i = j
          /\ guests = <<PipelineGuest(gs[1], "Bill Hader"), PipelineGuest(gs[2], "Barry Jenkins")>>
          /\ picks_raw = raw
          /\ picks = [i \in DOMAIN from |->
                        PipelinePick(raw[from[i]],
                                     IF i \in quoted
                                     THEN <<"https://www.youtube.com/watch?v=vidA&t=10s", NoKey>>
                                     ELSE <<"", NoKey>>)]
    /\ \E skip_enrich \in BOOLEAN, skip_normalize \in BOOLEAN, skip_validate \in BOOLEAN :
          threads = [ main |-> "running",
                      steps |-> pipeline_steps(skip_enrich, skip_normalize, skip_validate),
                      pc |-> 1 ]
    /\ catalog = <<>>
    /\ before = NoDocs
    /\ last = [op |-> "none"]
    /\ runs = 0 /\ checkpoint = <<>> /\ lock = <<>>

PipelineAt(step) ==
    /\ threads.main = "running"
    /\ threads.pc <= Len(threads.steps)
    /\ threads.steps[threads.pc] = step

PipelineAdvance ==
    threads' = [threads EXCEPT !.pc = @ + 1,
                               !.main = IF threads.pc = Len(threads.steps) THEN "done" ELSE @]

\* step 9: migrate_source_visit.py
PipelineMigrate ==
    /\ PipelineAt(9)
    /\ LET T == migrate_source_visit(Docs)
       IN guests' = T.guests /\ picks' = T.picks /\ picks_raw' = T.picks_raw
    /\ before' = Docs
    /\ last' = [op |-> "migrate_source_visit"]
    /\ PipelineAdvance
    /\ UNCHANGED <<catalog, runs, checkpoint, lock>>

\* step 10: enrich_tmdb.py, the part that writes guests.json
PipelineEnrich ==
    /\ PipelineAt(10)
    /\ \E found \in BOOLEAN :
          guests' = [g \in DOMAIN guests |-> enrich_guest(guests[g], found)]
    /\ before' = Docs
    /\ last' = [op |-> "enrich_tmdb"]
    /\ PipelineAdvance
    /\ UNCHANGED <<catalog, picks_raw, picks, runs, checkpoint, lock>>

\* step 11: normalize_guests.py, second pass
PipelineNormalize ==
    /\ PipelineAt(11)
    /\ LET out == normalize(Docs)
       IN guests' = out.guests /\ picks' = out.picks /\ picks_raw' = out.picks_raw
    /\ before' = Docs
    /\ last' = [op |-> "normalize"]
    /\ PipelineAdvance
    /\ UNCHANGED <<catalog, runs, checkpoint, lock>>

\* step 12: validate.py reads the documents and writes a report
PipelineValidate ==
    /\ PipelineAt(12)
    /\ before' = Docs
    /\ last' = [op |-> "validate"]
    /\ PipelineAdvance
    /\ UNCHANGED <<catalog, guests, picks_raw, picks, runs, checkpoint, lock>>

NextPipeline ==
    \/ PipelineMigrate
    \/ PipelineEnrich
    \/ PipelineNormalize
    \/ PipelineValidate

SpecPipeline == InitPipeline /\ [][NextPipeline]_vars

PipelineDone == threads.main = "done"

\* C22: after the orchestrated pipeline has completed, every guest's
\* pick_count equals the number of that guest's displayable picks: the
\* processed picks that are criterion-sourced or have a non-empty quote, plus
\* the criterion-sourced raw picks whose film is not among the guest's
\* processed picks.
C22_PickCountIsDisplayable ==
    PipelineDone =>
        \A g \in DOMAIN guests :
            guests[g].pick_count = displayable(guests[g].slug, picks, picks_raw)

\* the same statement for the runs that skip the second normalize pass
C22_PickCountIsDisplayableWithoutNormalize ==
    (PipelineDone /\ 11 \notin Range(threads.steps)) =>
        \A g \in DOMAIN guests :
            guests[g].pick_count = displayable(guests[g].slug, picks, picks_raw)

(***************************************************************************)
(* match_youtube.py: the playlist videos matched to the guests by name     *)
(***************************************************************************)
MaxYoutubeRuns == 2

\* a playlist entry as yt-dlp returns it
Video(video_id, title, upload_date) ==
    [video_id |-> video_id, title |-> title, upload_date |-> upload_date]

PlaylistVideos == {
    Video("vidCT", "Cate Blanchett and Todd Field^s Closet Picks", "20230110"),
    Video("vidBJ", "Barry Jenkins^s Closet Picks", "20240501"),
    Video("vidBM", "Barry Jenkins on Moonlight", "") }

\* the title says closet picks, closet favorites or dvd picks
is_closet_picks_video(title) ==
    title \in {"Cate Blanchett and Todd Field^s Closet Picks", "Barry Jenkins^s Closet Picks"}

\* pattern 1, Name^s Closet Picks; a title that fits no pattern is returned whole
parse_guest_name_from_video_title(title) ==
    CASE title = "Cate Blanchett and Todd Field^s Closet Picks" -> "Cate Blanchett and Todd Field"
      [] title = "Barry Jenkins^s Closet Picks" -> "Barry Jenkins"
      [] OTHER -> title

\* lower case, hyphens to spaces, possessives removed, runs of spaces folded
normalize_name(name) ==
    CASE name = "Cate Blanchett and Todd Field" -> "cate blanchett and todd field"
      [] name = "Cate Blanchett" -> "cate blanchett"
      [] name = "Todd Field" -> "todd field"
      [] name = "Barry Jenkins" -> "barry jenkins"
      [] OTHER -> lower(name)

\* parsed_name.lower().split(" and "), each part stripped, when the name
\* holds " and "
compound_parts(parsed_name) ==
    IF parsed_name = "Cate Blanchett and Todd Field"
    THEN {"cate blanchett", "todd field"} ELSE {}

Most(S) == CHOOSE n \in S : \A m \in S : m <= n

\* the score of one video for one guest: the whole parsed name, or the best
\* part of a compound name
video_score(video, guest) ==
    LET parsed_name == parse_guest_name_from_video_title(video.title)
        guest_norm == normalize_name(guest.name)
    IN Most({fuzzy_match_score(normalize_name(parsed_name), guest_norm)}
            \cup {fuzzy_match_score(part, guest_norm) : part \in compound_parts(parsed_name)})

\* the guests without a video id of their own
guests_needing_video(gs) ==
    {g \in DOMAIN gs : ~Truthy(gs[g].youtube_video_id) /\ ~Truthy(gs[g].vimeo_video_id)}

\* guest_candidates[slug]: the closet picks videos scoring at least 70
guest_candidates(videos, guest) ==
    {v \in DOMAIN videos : is_closet_picks_video(videos[v].title)
                           /\ video_score(videos[v], guest) >= 70}

\* candidates.sort(key=score, reverse=True)[0]: the first video of the best score
best_video(videos, guest) ==
    LET cands == guest_candidates(videos, guest)
        top == Most({video_score(videos[v], guest) : v \in cands})
    IN Least({v \in cands : video_score(videos[v], guest) = top})

\* the <<video, guest index>> pairs, in guest order
match_videos_to_guests(videos, gs) ==
    LET matched == {g \in guests_needing_video(gs) : guest_candidates(videos, gs[g]) # {}}
    IN SelectIdx([g \in DOMAIN gs |->
                     IF g \in matched THEN <<videos[best_video(videos, gs[g])], g>> ELSE <<>>],
                 matched, 1)

episode_date_of(upload_date) ==
    CASE upload_date = "20230110" -> "2023-01-10"
      [] upload_date = "20240501" -> "2024-05-01"
      [] OTHER -> ""

\* main: the fields written on a matched guest
with_video(guest, video) ==
    LET dated == [guest EXCEPT
                    !.youtube_video_id = video.video_id,
                    !.youtube_video_url = YoutubeUrl(video.video_id),
                    !.episode_date = IF video.upload_date # "" THEN episode_date_of(video.upload_date)
                                     ELSE @]
    IN IF Len(guest.visits) > 0
       THEN [dated EXCEPT !.visits[1].episode_date = dated.episode_date,
                          !.visits[1].youtube_video_id = video.video_id,
                          !.visits[1].youtube_video_url = dated.youtube_video_url]
       ELSE dated

\* main: matches[:limit] applied to the guests
apply_matches(gs, matches, limit) ==
    LET kept == IF limit = 0 THEN matches ELSE SubSeq(matches, 1, Least({limit, Len(matches)}))
    IN [g \in DOMAIN gs |->
          IF \E m \in DOMAIN kept : kept[m][2] = g
          THEN with_video(gs[g], kept[CHOOSE m \in DOMAIN kept : kept[m][2] = g][1])
          ELSE gs[g]]

YoutubeGuestNames == <<
    <<"cate-blanchett", "Cate Blanchett">>,
    <<"todd-field", "Todd Field">>,
    <<"barry-jenkins", "Barry Jenkins">> >>

\* a guest as the scrapers leave it: without a video, or with the video
\* embedded in the guest's Criterion page
YoutubeGuest(slug, vid) ==
    [ slug |-> slug, name |-> Get(YoutubeGuestNames, slug),
      youtube_video_id |-> vid,
      youtube_video_url |-> IF vid = None THEN None ELSE YoutubeUrl(vid),
      vimeo_video_id |-> None, episode_date |-> None, visits |-> <<>>, pick_count |-> 0 ]

PageVideo(slug) == IF slug = "barry-jenkins" THEN "vidBJ" ELSE "vidCT"

\* no two guests carry the same non-empty youtube_video_id
VideoIdsDistinct(gs) ==
    \A g, h \in DOMAIN gs :
        (Truthy(gs[g].youtube_video_id) /\ gs[g].youtube_video_id = gs[h].youtube_video_id) => g = h

InitYoutube ==
    /\ \E slugs \in SeqsUpTo({YoutubeGuestNames[k][1] : k \in DOMAIN YoutubeGuestNames}, 3) :
       \E with_page \in SUBSET DOMAIN slugs :
          /\ slugs # <<>>
          /\ \A i, j \in DOMAIN slugs : slugs[i] = slugs[j] => i = j
          /\ guests = [g \in DOMAIN slugs |->
                         YoutubeGuest(slugs[g], IF g \in with_page THEN PageVideo(slugs[g]) ELSE None)]
          /\ VideoIdsDistinct(guests)
    /\ picks_raw = <<>> /\ picks = <<>> /\ catalog = <<>>
    /\ before = NoDocs
    /\ last = [op |-> "none"]
    /\ runs = 0 /\ checkpoint = <<>> /\ lock = <<>> /\ threads = NoThreads

\* match_youtube.main, for guests none of whom has two visits: the
\* second-visit matching finds no candidate and changes nothing
MatchYoutube ==
    \E listed \in SUBSET PlaylistVideos, limit \in 0..1 :
    \E videos \in [1..Cardinality(listed) -> listed] :
        /\ \A i, j \in DOMAIN videos : videos[i] = videos[j] => i = j
        /\ runs < MaxYoutubeRuns
        /\ runs' = runs + 1
        /\ before' = Docs
        /\ last' = [op |-> "match_youtube", videos |-> videos, limit |-> limit]
        /\ guests' = IF videos = <<>> THEN guests
                     ELSE apply_matches(guests, match_videos_to_guests(videos, guests), limit)
        /\ UNCHANGED <<catalog, picks_raw, picks, checkpoint, lock, threads>>

NextYoutube == MatchYoutube

SpecYoutube == InitYoutube /\ [][NextYoutube]_vars

\* C23: after video matching, no two guests have the same non-empty
\* youtube_video_id.
C23_VideoIdsDistinct ==
    last.op = "match_youtube" => VideoIdsDistinct(guests)

(***************************************************************************)
(* Re-running the collision corrector                                      *)
(***************************************************************************)
\* the run that produced this state read the saved output of an earlier run
CorrectorRerun == AfterCorrector /\ last.rerun

\* the entries of cat whose id is the one the correction table gives
AlreadyCorrected(cat) ==
    {i \in DOMAIN cat : /\ HasKey(SPINE_CORRECTIONS, cat[i].spine_number)
                        /\ cat[i].film_id = Get(SPINE_CORRECTIONS, cat[i].spine_number).film_id}

\* C24: a run of the collision corrector on the saved output of an earlier
\* run changes no catalog entry, no picks_raw record and no pick; and no run
\* changes (in particular, clears the enrichment fields of) a catalog entry
\* whose id is already the corrected one.
C24_RerunChangesNothing ==
    /\ CorrectorRerun =>
          /\ catalog = before.catalog
          /\ picks_raw = before.picks_raw
          /\ picks = before.picks
    /\ AfterCorrector =>
          \A i \in AlreadyCorrected(before.catalog) : catalog[i] = before.catalog[i]

\* a run on the output of an earlier run, over a store with a corrected raw
\* pick, a corrected pick and a corrected catalog entry that carries
\* enrichment fields
C24_Witness ==
    /\ CorrectorRerun
    /\ \E i \in AlreadyCorrected(catalog) : Truthy(catalog[i].tmdb_id)
    /\ \E i \in DOMAIN picks_raw : picks_raw[i].film_id \in {"roma-1972", "roma-2018"}
    /\ \E i \in DOMAIN picks : picks[i].film_id \in {"roma-1972", "roma-2018"}

(***************************************************************************)
(* Re-running the source/visit migration                                   *)
(***************************************************************************)
\* the run that produced this state read the saved output of an earlier run
MigrationRerun == AfterAttribution /\ last.rerun

VisitIndexes(ps) == [i \in DOMAIN ps |-> ps[i].visit_index]

PickCounts(gs) == [g \in DOMAIN gs |-> gs[g].pick_count]

\* C25: a run of the source/visit migration on the saved output of an
\* earlier run leaves every visit_index in picks and picks_raw, and every
\* guest's pick_count, unchanged.
C25_RerunKeepsVisitsAndCounts ==
    MigrationRerun =>
        /\ VisitIndexes(picks) = VisitIndexes(before.picks)
        /\ VisitIndexes(picks_raw) = VisitIndexes(before.picks_raw)
        /\ PickCounts(guests) = PickCounts(before.guests)

(***************************************************************************)
(* Re-running the box set grouping                                         *)
(***************************************************************************)
\* the run that produced this state read the saved output of an earlier run
GroupingRerun == AfterGrouping /\ last.rerun

\* the number of places of sequence ps that hold record p
Occurrences(ps, p) == Cardinality({i \in DOMAIN ps : ps[i] = p})

\* the two sequences hold the same records the same number of times
SameUpToOrder(ps, qs) ==
    \A p \in Range(ps) \cup Range(qs) : Occurrences(ps, p) = Occurrences(qs, p)

UnconvertedUnitPick(p) ==
    p.is_box_set /\ Truthy(p.box_set_name) /\ p.film_title = p.box_set_name
        /\ ~CountTruthy(p.box_set_film_count)

\* the count that the priority order gives the box set: the size of the union
\* of the catalog annotations and the raw picks' membership, else the count
\* in the name, else -1
PriorityCount(bsn) ==
    LET film_ids == box_set_film_counts(bsn, picks_raw, catalog, build_canonical_name_map(picks_raw))
        inferred == infer_film_count_from_name(bsn)
    IN IF film_ids # {} THEN <<Cardinality(film_ids)>>
       ELSE IF CountTruthy(inferred) THEN inferred
       ELSE <<-1>>

\* the picks of the latest run that were unit picks without a count when the
\* run loaded them, the only pick of their guest (so that nothing was merged
\* into them)
ConvertedBy(ops) ==
    {j \in DOMAIN picks :
        /\ last.op \in ops /\ ~last.dry_run
        /\ HasCount(picks[j])
        /\ \E i \in DOMAIN before.picks :
              /\ UnconvertedUnitPick(before.picks[i])
              /\ before.picks[i].guest_slug = picks[j].guest_slug
              /\ before.picks[i].film_id = picks[j].film_id
              /\ \A k \in DOMAIN before.picks :
                    before.picks[k].guest_slug = picks[j].guest_slug => k = i}

\* C27: a unit pick that an aggregator (group_box_sets.py, fix_box_sets.py)
\* converted carries the size of the union of catalog annotations and raw
\* membership when the union is not empty, else the count inferred from the
\* name, else -1.
C27_ConvertedCountByPriority ==
    \A j \in ConvertedBy({"group_box_sets", "fix_box_sets"}) :
        picks[j].box_set_film_count = PriorityCount(picks[j].box_set_name)

\* the same for the unit picks that fix_box_sets.py converted
C27_FixBoxSetsCountByPriority ==
    \A j \in ConvertedBy({"fix_box_sets"}) :
        picks[j].box_set_film_count = PriorityCount(picks[j].box_set_name)

\* fix_box_sets.py converted a unit pick whose box set has annotated films
C27_FixWitness ==
    \E j \in ConvertedBy({"fix_box_sets"}) :
        box_set_film_counts(picks[j].box_set_name, picks_raw, catalog,
                            build_canonical_name_map(picks_raw)) # {}

\* group_box_sets.py converted a unit pick whose box set has annotated films
C27_GroupWitness ==
    \E j \in ConvertedBy({"group_box_sets"}) :
        box_set_film_counts(picks[j].box_set_name, picks_raw, catalog,
                            build_canonical_name_map(picks_raw)) # {}

(***************************************************************************)
(* process_all.py: the orchestrator                                        *)
(***************************************************************************)
NumSteps == 12

\* the --skip-* flag that guards each step; "" for a step that no flag skips
STEP_FLAGS == <<
    "skip_catalog", "skip_criterion", "skip_normalize", "skip_youtube", "skip_quotes",
    "", "", "", "",
    "skip_enrich", "skip_normalize", "skip_validate" >>

SkipFlags == {STEP_FLAGS[n] : n \in 1..NumSteps} \ {""}

\* --from-step is any integer; 0 and NumSteps + 1 stand for the values
\* outside 1..12
FromSteps == 0..(NumSteps + 1)

\* what subprocess.run() of a step can end in: return code 0, another return
\* code, TimeoutExpired, another exception
StepOutcomes == {"ok", "failed", "timeout", "error"}

\* run_step(): True for return code 0 only
run_step(outcome) == outcome = "ok"

\* main(): the guard of steps.append for step step_num
step_selected(skip, from_step, step_num) ==
    STEP_FLAGS[step_num] \notin skip /\ from_step <= step_num

\* main(): the list steps, as the step numbers in the order of the appends
build_steps(skip, from_step) ==
    SelectIdx([n \in 1..NumSteps |-> n],
              {n \in 1..NumSteps : step_selected(skip, from_step, n)}, 1)

\* A loop that goes on to the next step whatever the last one returned.
loop_goes_on_always(success, pc, steps) == pc < Len(steps)

\* main(): the loop over steps goes on after step pc unless it failed (break)
\* or was the last
loop_goes_on(success, pc, steps) == success /\ pc < Len(steps)

\* the state of main() after the arguments are parsed and steps is built
InitOrchestrator ==
    /\ \E skip \in SUBSET SkipFlags :
       \E from_step \in FromSteps :
           threads = [ main |-> "built", skip |-> skip, from_step |-> from_step,
                       steps |-> build_steps(skip, from_step),
                       pc |-> 1, results |-> <<>>, exit_status |-> -1 ]
    /\ catalog = <<>>
    /\ guests = <<>>
    /\ picks_raw = <<>>
    /\ picks = <<>>
    /\ before = NoDocs
    /\ last = [op |-> "none"]
    /\ runs = 0
    /\ checkpoint = <<>>
    /\ lock = <<>>

\* main(): total_steps == 0 returns, else the loop starts
OrchestratorStart ==
    /\ threads.main = "built"
    /\ threads' = IF Len(threads.steps) = 0
                  THEN [threads EXCEPT !.main = "exited", !.exit_status = 0]
                  ELSE [threads EXCEPT !.main = "loop"]
    /\ UNCHANGED <<catalog, guests, picks_raw, picks, before, last, runs, checkpoint, lock>>

\* main(): one turn of the loop: run_step, results.append, break on failure
OrchestratorRunStep ==
    \E outcome \in StepOutcomes :
        LET success == run_step(outcome)
            num == threads.steps[threads.pc]
        IN /\ threads.main = "loop"
           /\ threads' = [ threads EXCEPT
                             !.results = Append(@, <<num, success>>),
                             !.pc = threads.pc + 1,
                             !.main = IF loop_goes_on(success, threads.pc, threads.steps)
                                      THEN "loop" ELSE "summary" ]
           /\ last' = [op |-> "run_step", num |-> num, outcome |-> outcome]
           /\ UNCHANGED <<catalog, guests, picks_raw, picks, before, runs, checkpoint, lock>>

\* main(): the summary, then sys.exit(1) if a step failed
OrchestratorSummary ==
    /\ threads.main = "summary"
    /\ threads' = [ threads EXCEPT
                      !.main = "exited",
                      !.exit_status =
                          IF \A i \in DOMAIN threads.results : threads.results[i][2]
                          THEN 0 ELSE 1 ]
    /\ UNCHANGED <<catalog, guests, picks_raw, picks, before, last, runs, checkpoint, lock>>

NextOrchestrator == OrchestratorStart \/ OrchestratorRunStep \/ OrchestratorSummary

SpecOrchestrator == InitOrchestrator /\ [][NextOrchestrator]_vars

\* the numbers of the steps that were run, in the order they were run
StepsRun == [i \in DOMAIN threads.results |-> threads.results[i][1]]

\* C28: the orchestrator runs the selected steps in their listed order (the
\* steps run are a prefix of the selected steps, in increasing number); after
\* a step that failed or timed out no step is run and the process exits with
\* status 1; no step numbered below --from-step is run.
C28_OrderedStopsOnFailure ==
    /\ StepsRun = SubSeq(threads.steps, 1, Len(StepsRun))
    /\ \A i, j \in DOMAIN StepsRun : i < j => StepsRun[i] < StepsRun[j]
    /\ \A i \in DOMAIN StepsRun : step_selected(threads.skip, threads.from_step, StepsRun[i])
    /\ \A i \in DOMAIN threads.results : ~threads.results[i][2] => i = Len(threads.results)
    /\ (threads.main = "exited" /\ \E i \in DOMAIN threads.results : ~threads.results[i][2])
          => threads.exit_status = 1
    /\ (threads.main = "exited" /\ threads.exit_status = 0)
          => StepsRun = threads.steps
    /\ \A i \in DOMAIN StepsRun : StepsRun[i] >= threads.from_step

\* a run from step 3 with a step skipped has exited after two steps passed
\* and the third timed out, with selected steps left
C28_Witness ==
    /\ threads.main = "exited"
    /\ threads.from_step = 3
    /\ threads.skip # {}
    /\ Len(threads.results) = 3
    /\ Len(threads.steps) > 3
    /\ last.op = "run_step" /\ last.outcome = "timeout"
    /\ threads.exit_status = 1

(***************************************************************************)
(* extract_quotes_parallel.py: the points where a run can stop             *)
(***************************************************************************)
\* process_shard raises outside its try block, before the next guest is
\* extracted: the guest's transcript file is not valid JSON, or a quote of
\* the model carries no film_title.  future.result() raises in main, which
\* logs the shard as failed and drops what it had collected.
ShardFails(i) ==
    /\ Running(i)
    /\ threads.workers[i].pc = "extract"
    /\ threads.workers[i].k <= Len(threads.workers[i].shard)
    /\ threads' = [threads EXCEPT !.workers[i].pc = "failed"]
    /\ UNCHANGED <<catalog, guests, picks_raw, picks, before, last, runs, checkpoint, lock>>

\* the process is killed while the shards run
Crash ==
    /\ threads.main = "waiting"
    /\ threads' = [threads EXCEPT !.main = "crashed"]
    /\ lock' = <<>>
    /\ UNCHANGED <<catalog, guests, picks_raw, picks, before, last, runs, checkpoint>>

NextExtraction ==
    \/ NextParallel
    \/ \E i \in 1..MaxWorkers : ShardFails(i)
    \/ Crash

SpecExtraction == InitParallel /\ [][NextExtraction]_vars

\* the guests that the workers of this run have written to the checkpoint
CheckpointedByRun == UNION {Checkpointed(i) : i \in DOMAIN threads.workers}

\* the picks store holds a quote of the guest
QuotesSaved(slug) ==
    \E p \in DOMAIN picks : picks[p].guest_slug = slug /\ Truthy(picks[p].quote)

\* C29: wherever a run of the parallel extraction stops (normal end, crash,
\* or with a failed shard), every guest that the run recorded in the
\* checkpoint store has a quote saved in the picks store.
C29_CheckpointedQuotesSaved ==
    threads.main \in {"done", "crashed"} =>
        \A slug \in CheckpointedByRun : QuotesSaved(slug)

\* the same at the normal end of main only, where a shard may have failed
C29_CheckpointedQuotesSavedAtEnd ==
    threads.main = "done" =>
        \A slug \in CheckpointedByRun : QuotesSaved(slug)

\* the same at the normal end of a run in which no shard failed
C29_CheckpointedQuotesSavedWithoutFailure ==
    (threads.main = "done" /\ \A i \in DOMAIN threads.workers : threads.workers[i].pc = "done") =>
        \A slug \in CheckpointedByRun : QuotesSaved(slug)

(***************************************************************************)
(* normalize(): the guest references of the picks                          *)
(***************************************************************************)
\* every pick and raw pick of the documents names a guest of the documents
ReferencesResolve(docs) ==
    /\ \A i \in DOMAIN docs.picks : docs.picks[i].guest_slug \in SlugsOf(docs.guests)
    /\ \A i \in DOMAIN docs.picks_raw : docs.picks_raw[i].guest_slug \in SlugsOf(docs.guests)

\* C30: when every pick and raw pick that a normalize() run loads names the
\* slug of a loaded guest, every pick and raw pick it saves names the slug of
\* a saved guest.
C30_PickReferencesResolve ==
    (AfterNormalize /\ ReferencesResolve(before)) => ReferencesResolve(Docs)

\* a run removed a guest that a loaded pick and a loaded raw pick named
C30_Witness ==
    /\ AfterNormalize
    /\ ReferencesResolve(before)
    /\ \E i \in DOMAIN before.picks : before.picks[i].guest_slug \notin SlugsOf(guests)
    /\ \E i \in DOMAIN before.picks_raw : before.picks_raw[i].guest_slug \notin SlugsOf(guests)
====
